---- MODULE Spec2Model ----
(***************************************************************************)
(* Model of the message-processing pipeline of the AI shopping assistant:  *)
(* src/lib/edibleApi.js (catalog client with its search cache) and         *)
(* src/lib/aiPipeline.js (gateway calls, intent extraction, search,        *)
(* filter and rank, generation, reconciliation).                           *)
(*                                                                         *)
(* JavaScript strings are modelled as sequences of one-character strings,  *)
(* so that trim, toLowerCase, includes, replace, split and join are        *)
(* computed and not assumed.                                               *)
(***************************************************************************)
EXTENDS Integers, Sequences, FiniteSets, TLC

\* ------------------------------------------------------------------------
\* Generic sequence helpers
\* ------------------------------------------------------------------------

Range(s) == { s[i] : i \in 1..Len(s) }

Min2(a, b) == IF a <= b THEN a ELSE b

Max2(a, b) == IF a >= b THEN a ELSE b

\* Array.prototype.slice(0, n)
Slice(s, n) == SubSeq(s, 1, Min2(n, Len(s)))

MapSeq(F(_), s) == [i \in 1..Len(s) |-> F(s[i])]

\* All sequences over S of length at most n
SeqsUpTo(S, n) == UNION { [1..k -> S] : k \in 0..n }

IsInjective(s) == \A i, j \in 1..Len(s) : s[i] = s[j] => i = j

\* ------------------------------------------------------------------------
\* JavaScript strings as sequences of characters
\* ------------------------------------------------------------------------

UpperChars == <<"A","B","C","D","E","F","G","H","I","J","K","L","M",
                "N","O","P","Q","R","S","T","U","V","W","X","Y","Z">>

LowerChars == <<"a","b","c","d","e","f","g","h","i","j","k","l","m",
                "n","o","p","q","r","s","t","u","v","w","x","y","z">>

LowerMap ==
    [c \in Range(UpperChars) |->
        LowerChars[CHOOSE i \in 1..26 : UpperChars[i] = c]]

LowerChar(c) == IF c \in DOMAIN LowerMap THEN LowerMap[c] ELSE c

\* String.prototype.toLowerCase
ToLowerCase(s) == [i \in 1..Len(s) |-> LowerChar(s[i])]

IsSpace(c) == c = " "

RECURSIVE TrimStart(_)
TrimStart(s) ==
    IF s # <<>> /\ IsSpace(Head(s)) THEN TrimStart(Tail(s)) ELSE s

RECURSIVE TrimEnd(_)
TrimEnd(s) ==
    IF s # <<>> /\ IsSpace(s[Len(s)])
    THEN TrimEnd(SubSeq(s, 1, Len(s) - 1))
    ELSE s

\* String.prototype.trim
Trim(s) == TrimEnd(TrimStart(s))

\* String.prototype.includes
Includes(hay, needle) ==
    \E i \in 0..(Len(hay) - Len(needle)) :
        SubSeq(hay, i + 1, i + Len(needle)) = needle

\* String.prototype.replace(from, to) with one-character strings: only the
\* first occurrence is replaced.
ReplaceFirst(s, from, to) ==
    IF \E i \in 1..Len(s) : s[i] = from
    THEN LET k == CHOOSE i \in 1..Len(s) :
                    s[i] = from /\ \A j \in 1..(i - 1) : s[j] # from
         IN  [s EXCEPT ![k] = to]
    ELSE s

\* String.prototype.split(" ")
RECURSIVE SplitSpace(_)
SplitSpace(s) ==
    IF \E i \in 1..Len(s) : s[i] = " "
    THEN LET k == CHOOSE i \in 1..Len(s) :
                    s[i] = " " /\ \A j \in 1..(i - 1) : s[j] # " "
         IN  <<SubSeq(s, 1, k - 1)>> \o SplitSpace(SubSeq(s, k + 1, Len(s)))
    ELSE <<s>>

\* Array.prototype.join(" ")
RECURSIVE JoinSpace(_)
JoinSpace(parts) ==
    IF parts = <<>> THEN <<>>
    ELSE IF Len(parts) = 1 THEN parts[1]
    ELSE parts[1] \o <<" ">> \o JoinSpace(Tail(parts))

\* Decimal digits of a natural number: String(n) for an integer identifier
RECURSIVE Digits(_)
Digits(n) ==
    IF n < 10 THEN <<n>> ELSE Digits(n \div 10) \o <<n % 10>>

\* ------------------------------------------------------------------------
\* Null values
\* ------------------------------------------------------------------------

\* JavaScript null / undefined in a numeric field (prices, budgets)
Null == -1

\* JavaScript null / undefined in a string field
NullStr == <<"<null>">>

\* ToBoolean of a string-or-null value: null, undefined and "" are falsy
TruthyStr(s) == s # NullStr /\ s # <<>>

\* ToBoolean of a number-or-null value: null, undefined and 0 are falsy
TruthyNum(n) == n # Null /\ n # 0

\* ------------------------------------------------------------------------
\* String literals used by the program and its environment
\* ------------------------------------------------------------------------

kwBirthday == <<"b","d","a","y">>

kwBirthdayRaw == <<"B","d","a","y"," ">>

kwMom == <<"m","o","m">>

kwGetWell == <<"g","e","t"," ","w","e","l","l">>

kwBlank == <<" ">>

kwEmpty == <<>>

occGetWell == <<"g","e","t","_","w","e","l","l">>

strNull == <<"n","u","l","l">>

kwPopularGifts == <<"p","o","p","u","l","a","r"," ","g","i","f","t","s">>

kwBestSellers == <<"b","e","s","t"," ","s","e","l","l","e","r","s">>

TopSellerTag == <<"T","o","p"," ","S","e","l","l","e","r">>

tagNew == <<"N","e","w">>

occBirthdayGetWell == <<"B","d","a","y",",","G","e","t"," ","W","e","l","l">>

occAnniversary == <<"W","e","d","d","i","n","g">>

ingEggMilk == <<"E","g","g",",","M","i","l","k">>

ingFruit == <<"K","i","w","i">>

strEgg == <<"e","g","g">>

msgHi == <<"h","i">>

msgGift == <<"a"," ","g","i","f","t"," ","f","o","r"," ","m","y"," ","m","o","m">>

\* ------------------------------------------------------------------------
\* The external catalog: raw CatalogProduct records as the search endpoint
\* returns them (the fields the pipeline reads)
\* ------------------------------------------------------------------------

Product(id, price, occ, ingr, oneHour, tag, score) ==
    [ id                |-> id,
      minPrice          |-> price,
      occasion          |-> occ,
      ingrediantNames   |-> ingr,
      isOneHourDelivery |-> oneHour,
      productImageTag   |-> tag,
      score             |-> score ]

p10 == Product(10, 25, occBirthdayGetWell, ingFruit, TRUE, TopSellerTag, 5)

p20 == Product(20, 45, occBirthdayGetWell, ingEggMilk, FALSE, TopSellerTag, 3)

p30 == Product(30, 50, occAnniversary, ingFruit, TRUE, <<>>, 90)

p40 == Product(40, 60, occBirthdayGetWell, ingFruit, FALSE, tagNew, 80)

p50 == Product(50, Null, occBirthdayGetWell, ingFruit, TRUE, <<>>, 70)

p60 == Product(60, 30, <<>>, ingEggMilk, TRUE, <<>>, 60)

p70 == Product(70, 0, occAnniversary, <<>>, FALSE, <<>>, 50)

p80 == Product(80, 100, occBirthdayGetWell, ingFruit, TRUE, tagNew, 40)

p55 == Product(55, 35, occAnniversary, ingFruit, TRUE, <<>>, 30)

p90 == Product(90, 20, <<>>, ingFruit, FALSE, <<>>, 20)

p95 == Product(95, 75, occBirthdayGetWell, ingEggMilk, TRUE, <<>>, 20)

\* What the search endpoint may answer to a (lower-cased, trimmed) keyword
\* when it answers with success.  A keyword may have more than one possible
\* answer: the catalog changes over time.
CatalogResponses(key) ==
    CASE key = kwBirthday ->
            { <<p30, p10, p40, p20, p50, p60, p55, p70, p80, p90, p95>> }
      [] key = kwMom      -> { <<p55, p20>> }
      [] key = kwGetWell  -> { <<p95, p10, p95>>, <<p10>> }
      [] OTHER            -> { <<>> }

\* ------------------------------------------------------------------------
\* edibleApi.js : searchProducts and multiSearch
\* ------------------------------------------------------------------------

CACHE_TTL == 5 * 60 * 1000

\* Variant: the keyword itself as the key
CacheKey_Raw(keyword) == keyword

\* keyword.toLowerCase().trim()
CacheKey(keyword) == Trim(ToLowerCase(keyword))

\* Variant: only the empty keyword returns early
IsBlankKeyword_EmptyOnly(keyword) == ~TruthyStr(keyword)

\* !keyword || keyword.trim().length === 0
IsBlankKeyword(keyword) ==
    ~TruthyStr(keyword) \/ Len(Trim(keyword)) = 0

\* Variant: an entry of exactly CACHE_TTL still counts as fresh
IsFresh_Inclusive(entry, clock) == clock - entry.timestamp <= CACHE_TTL

\* Date.now() - cached.timestamp < CACHE_TTL
IsFresh(entry, clock) == clock - entry.timestamp < CACHE_TTL

CacheDelete(c, key) == [k \in (DOMAIN c) \ {key} |-> c[k]]

\* Variant: a result is added to what the entry already holds
CacheSet_Merging(c, key, data, clock) ==
    [k \in (DOMAIN c) \cup {key} |->
        IF k = key
        THEN [data |-> (IF key \in DOMAIN c THEN c[key].data ELSE <<>>) \o data,
              timestamp |-> clock]
        ELSE c[k]]

CacheSet(c, key, data, clock) ==
    [k \in (DOMAIN c) \cup {key} |->
        IF k = key THEN [data |-> data, timestamp |-> clock] ELSE c[k]]

\* searchProducts up to its first await: the blank-keyword return, the cache
\* lookup (with eviction of an expired entry) and the issue of the request.
\* Yields the sub-search and the cache after it.
SearchProductsBegin(keyword, c, clock) ==
    IF IsBlankKeyword(keyword)
    THEN [ cache |-> c,
           sub   |-> [keyword |-> keyword, key |-> <<>>, state |-> "resolved",
                      how |-> "blank", data |-> <<>>] ]
    ELSE LET key == CacheKey(keyword) IN
         IF key \in DOMAIN c /\ IsFresh(c[key], clock)
         THEN [ cache |-> c,
                sub   |-> [keyword |-> keyword, key |-> key,
                           state |-> "resolved", how |-> "cache",
                           data |-> c[key].data] ]
         ELSE [ cache |-> IF key \in DOMAIN c THEN CacheDelete(c, key) ELSE c,
                sub   |-> [keyword |-> keyword, key |-> key,
                           state |-> "pending", how |-> "fetch",
                           data |-> <<>>] ]

\* keywords.map((kw) => searchProducts(kw)) : every sub-search runs to its
\* first await, in keyword order, before multiSearch awaits Promise.all.
RECURSIVE StartSubSearches(_, _, _)
StartSubSearches(keywords, c, clock) ==
    IF keywords = <<>>
    THEN [cache |-> c, subs |-> <<>>]
    ELSE LET first == SearchProductsBegin(Head(keywords), c, clock)
             rest  == StartSubSearches(Tail(keywords), first.cache, clock)
         IN  [cache |-> rest.cache, subs |-> <<first.sub>> \o rest.subs]

\* Variant: the results are gathered in the order of completion
PromiseAllResults_ByCompletion(ss, order) ==
    [i \in 1..Len(ss) |-> ss[order[i]].data]

\* Promise.all resolves to the results in the order of the keywords,
\* whatever the order in which the sub-searches completed.
PromiseAllResults(ss, order) == [i \in 1..Len(ss) |-> ss[i].data]

\* Variant: the merge loop without the `seen` test
RECURSIVE MergeResultSet_NoSeen(_, _)
MergeResultSet_NoSeen(acc, resultSet) ==
    IF resultSet = <<>> THEN acc
    ELSE MergeResultSet_NoSeen(Append(acc, Head(resultSet)), Tail(resultSet))

\* The merge loop of multiSearch: a product is pushed unless its id was seen
RECURSIVE MergeResultSet(_, _)
MergeResultSet(acc, resultSet) ==
    IF resultSet = <<>> THEN acc
    ELSE LET product == Head(resultSet)
             seen    == { acc[i].id : i \in 1..Len(acc) }
         IN  MergeResultSet(
                 IF product.id \notin seen THEN Append(acc, product) ELSE acc,
                 Tail(resultSet))

RECURSIVE MergeResults(_, _)
MergeResults(acc, results) ==
    IF results = <<>> THEN acc
    ELSE MergeResults(MergeResultSet(acc, Head(results)), Tail(results))

\* ------------------------------------------------------------------------
\* edibleApi.js : filterProducts and the display projection
\* ------------------------------------------------------------------------

\* Array.prototype.filter
RECURSIVE FilterSeq(_, _)
FilterSeq(Keep(_), s) ==
    IF s = <<>> THEN <<>>
    ELSE (IF Keep(Head(s)) THEN <<Head(s)>> ELSE <<>>) \o FilterSeq(Keep, Tail(s))

\* A product without a price counted as priced 0 against a lower bound
PassesMinBudget_NullAsZero(p, bound) ==
    (IF p.minPrice = Null THEN 0 ELSE p.minPrice) >= bound

\* p.minPrice != null && p.minPrice >= filters.minBudget
PassesMinBudget(p, bound) == p.minPrice # Null /\ p.minPrice >= bound

\* p.minPrice != null && p.minPrice <= filters.maxBudget
PassesMaxBudget(p, bound) == p.minPrice # Null /\ p.minPrice <= bound

\* p.occasion && p.occasion.toLowerCase().includes(occ)
MatchesOccasion(p, occ) ==
    TruthyStr(p.occasion) /\ Includes(ToLowerCase(p.occasion), occ)

\* !filters.excludeIngredients.some((exc) =>
\*     ingredients.includes(exc.toLowerCase()))
PassesDietary(p, excluded) ==
    LET ingredients ==
            ToLowerCase(IF TruthyStr(p.ingrediantNames)
                        THEN p.ingrediantNames ELSE <<>>)
    IN  ~\E i \in 1..Len(excluded) :
            Includes(ingredients, ToLowerCase(excluded[i]))

\* Variant: a bound that is 0 counts as absent
BudgetFiltered_Truthy(products, filters) ==
    LET afterMin ==
            IF TruthyNum(filters.minBudget)
            THEN LET K(p) == PassesMinBudget(p, filters.minBudget)
                 IN  FilterSeq(K, products)
            ELSE products
    IN  IF TruthyNum(filters.maxBudget)
        THEN LET K(p) == PassesMaxBudget(p, filters.maxBudget)
             IN  FilterSeq(K, afterMin)
        ELSE afterMin

\* The two budget filters: what filterProducts saves as budgetFiltered
BudgetFiltered(products, filters) ==
    LET afterMin ==
            IF filters.minBudget # Null
            THEN LET K(p) == PassesMinBudget(p, filters.minBudget)
                 IN  FilterSeq(K, products)
            ELSE products
    IN  IF filters.maxBudget # Null
        THEN LET K(p) == PassesMaxBudget(p, filters.maxBudget)
             IN  FilterSeq(K, afterMin)
        ELSE afterMin

\* Variant: the occasion orders the list, matching products first
OccasionFiltered_MatchesFirst(budgetFiltered, filters) ==
    IF TruthyStr(filters.occasion)
    THEN LET occ     == ToLowerCase(filters.occasion)
             K(p)    == MatchesOccasion(p, occ)
             N(p)    == ~MatchesOccasion(p, occ)
         IN  FilterSeq(K, budgetFiltered) \o FilterSeq(N, budgetFiltered)
    ELSE budgetFiltered

\* Variant: the fallback leaves out the first budget-filtered product
OccasionFiltered_FallbackRest(budgetFiltered, filters) ==
    IF TruthyStr(filters.occasion)
    THEN LET occ     == ToLowerCase(filters.occasion)
             K(p)    == MatchesOccasion(p, occ)
             matched == FilterSeq(K, budgetFiltered)
         IN  IF Len(matched) = 0 /\ budgetFiltered # <<>>
             THEN Tail(budgetFiltered) ELSE matched
    ELSE budgetFiltered

\* Variant: the occasion filter without the fallback
OccasionFiltered_NoFallback(budgetFiltered, filters) ==
    IF TruthyStr(filters.occasion)
    THEN LET occ  == ToLowerCase(filters.occasion)
             K(p) == MatchesOccasion(p, occ)
         IN  FilterSeq(K, budgetFiltered)
    ELSE budgetFiltered

\* The occasion filter with its fallback to the budget-filtered list
OccasionFiltered(budgetFiltered, filters) ==
    IF TruthyStr(filters.occasion)
    THEN LET occ     == ToLowerCase(filters.occasion)
             K(p)    == MatchesOccasion(p, occ)
             matched == FilterSeq(K, budgetFiltered)
         IN  IF Len(matched) = 0 THEN budgetFiltered ELSE matched
    ELSE budgetFiltered

\* Variant: the occasion step, with its fallback to the budget-filtered
\* list, comes after the dietary and urgency filters
filterProducts_OccasionLast(products, filters) ==
    LET budgetFiltered == BudgetFiltered(products, filters)
        afterDietary ==
            IF Len(filters.excludeIngredients) > 0
            THEN LET K(p) == PassesDietary(p, filters.excludeIngredients)
                 IN  FilterSeq(K, budgetFiltered)
            ELSE budgetFiltered
        afterUrgent ==
            IF filters.urgentDelivery
            THEN LET K(p) == p.isOneHourDelivery
                 IN  FilterSeq(K, afterDietary)
            ELSE afterDietary
    IN  IF TruthyStr(filters.occasion)
        THEN LET occ     == ToLowerCase(filters.occasion)
                 K(p)    == MatchesOccasion(p, occ)
                 matched == FilterSeq(K, afterUrgent)
             IN  IF Len(matched) = 0 THEN budgetFiltered ELSE matched
        ELSE afterUrgent

filterProducts(products, filters) ==
    LET budgetFiltered == BudgetFiltered(products, filters)
        afterOccasion  == OccasionFiltered(budgetFiltered, filters)
        afterDietary ==
            IF Len(filters.excludeIngredients) > 0
            THEN LET K(p) == PassesDietary(p, filters.excludeIngredients)
                 IN  FilterSeq(K, afterOccasion)
            ELSE afterOccasion
        afterUrgent ==
            IF filters.urgentDelivery
            THEN LET K(p) == p.isOneHourDelivery
                 IN  FilterSeq(K, afterDietary)
            ELSE afterDietary
    IN  afterUrgent

\* formatProductForDisplay: the display projection of a raw product
formatProductForDisplay(product) ==
    [ id                |-> product.id,
      minPrice          |-> product.minPrice,
      occasion          |-> IF TruthyStr(product.occasion)
                            THEN product.occasion ELSE <<>>,
      ingredients       |-> IF TruthyStr(product.ingrediantNames)
                            THEN product.ingrediantNames ELSE <<>>,
      isOneHourDelivery |-> product.isOneHourDelivery,
      productTag        |-> IF TruthyStr(product.productImageTag)
                            THEN product.productImageTag ELSE <<>> ]

\* ------------------------------------------------------------------------
\* aiPipeline.js : filterAndRank
\* ------------------------------------------------------------------------

\* (a.productImageTag || "").includes("Top Seller") ? -10 : 0
TopSellerKey(p) ==
    IF Includes(IF TruthyStr(p.productImageTag)
                THEN p.productImageTag ELSE <<>>, TopSellerTag)
    THEN -10 ELSE 0

\* The comparator handed to Array.prototype.sort
CompareProducts(a, b) ==
    IF TopSellerKey(a) # TopSellerKey(b)
    THEN TopSellerKey(a) - TopSellerKey(b)
    ELSE (IF TruthyNum(b.score) THEN b.score ELSE 0)
         - (IF TruthyNum(a.score) THEN a.score ELSE 0)

\* A sort that puts an element before the elements it ties with
RECURSIVE InsertSorted_BeforeTies(_, _)
InsertSorted_BeforeTies(sorted, x) ==
    IF sorted = <<>> THEN <<x>>
    ELSE IF CompareProducts(Head(sorted), x) >= 0
         THEN <<x>> \o sorted
         ELSE <<Head(sorted)>> \o InsertSorted_BeforeTies(Tail(sorted), x)

\* Array.prototype.sort is stable: an element is inserted after every
\* element that does not compare greater than it.
RECURSIVE InsertSorted(_, _)
InsertSorted(sorted, x) ==
    IF sorted = <<>> THEN <<x>>
    ELSE IF CompareProducts(Head(sorted), x) > 0
         THEN <<x>> \o sorted
         ELSE <<Head(sorted)>> \o InsertSorted(Tail(sorted), x)

RECURSIVE SortProducts(_)
SortProducts(s) ==
    IF s = <<>> THEN <<>>
    ELSE InsertSorted(SortProducts(SubSeq(s, 1, Len(s) - 1)), s[Len(s)])

\* The filters object filterAndRank builds from the intent
FiltersFromIntent(intent) ==
    [ minBudget          |-> IF TruthyNum(intent.budget_min)
                             THEN intent.budget_min ELSE Null,
      maxBudget          |-> IF TruthyNum(intent.budget_max)
                             THEN intent.budget_max ELSE Null,
      occasion           |-> IF TruthyStr(intent.occasion)
                                /\ intent.occasion # strNull
                             THEN ReplaceFirst(intent.occasion, "_", " ")
                             ELSE NullStr,
      excludeIngredients |-> intent.dietary_restrictions,
      urgentDelivery     |-> intent.urgency \in {"one_hour", "same_day"} ]

filterAndRank(products, intent) ==
    SortProducts(filterProducts(products, FiltersFromIntent(intent)))

\* ------------------------------------------------------------------------
\* aiPipeline.js : reorderProductsByMention
\*
\* A generated text is a sequence of tokens.  A token of kind "tag" is a
\* substring matching /\[ID:(\d+)\]/ and carries the digits it captures;
\* a token of kind "word" is any other stretch of text.
\* ------------------------------------------------------------------------

DISPLAY_LIMIT == 8

LLM_LIMIT == 10

Tag(digits) == [kind |-> "tag", digits |-> digits]

Word == [kind |-> "word", digits |-> <<>>]

\* Variant: every captured id is pushed, an id mentioned before included
RECURSIVE ExtractMentionedIds_NoIncludes(_, _)
ExtractMentionedIds_NoIncludes(mentionedIds, aiResponse) ==
    IF aiResponse = <<>> THEN mentionedIds
    ELSE LET tok == Head(aiResponse) IN
         ExtractMentionedIds_NoIncludes(
             IF tok.kind = "tag"
             THEN Append(mentionedIds, tok.digits)
             ELSE mentionedIds,
             Tail(aiResponse))

\* The while loop over idPattern.exec: the captured ids in order of first
\* appearance
RECURSIVE ExtractMentionedIds(_, _)
ExtractMentionedIds(mentionedIds, aiResponse) ==
    IF aiResponse = <<>> THEN mentionedIds
    ELSE LET tok == Head(aiResponse) IN
         ExtractMentionedIds(
             IF tok.kind = "tag" /\ tok.digits \notin Range(mentionedIds)
             THEN Append(mentionedIds, tok.digits)
             ELSE mentionedIds,
             Tail(aiResponse))

\* A JavaScript Map as the sequence of its entries in insertion order
MapHas(m, key) == \E i \in 1..Len(m) : m[i].key = key

MapGet(m, key) == m[CHOOSE i \in 1..Len(m) : m[i].key = key].value

\* Map.prototype.set: an existing key keeps its position
MapSet(m, key, value) ==
    IF MapHas(m, key)
    THEN [i \in 1..Len(m) |->
            IF m[i].key = key THEN [key |-> key, value |-> value] ELSE m[i]]
    ELSE Append(m, [key |-> key, value |-> value])

MapDelete(m, key) ==
    LET K(e) == e.key # key IN FilterSeq(K, m)

MapValues(m) == [i \in 1..Len(m) |-> m[i].value]

\* new Map(products.map(p => [String(p.id), p]))
RECURSIVE MapOfProducts(_, _)
MapOfProducts(m, products) ==
    IF products = <<>> THEN m
    ELSE MapOfProducts(MapSet(m, Digits(Head(products).id), Head(products)),
                       Tail(products))

\* Variant: a mentioned id found in neither map is pushed as a stub
RECURSIVE PlaceMentioned_Placeholder(_, _, _)
PlaceMentioned_Placeholder(st, mentionedIds, allProductsMap) ==
    IF mentionedIds = <<>> THEN st
    ELSE LET idStr == Head(mentionedIds)
             stub  == formatProductForDisplay(
                          Product(0, Null, <<>>, <<>>, FALSE, <<>>, 0))
             next  ==
                IF MapHas(st.displayMap, idStr)
                THEN [ reordered  |-> Append(st.reordered,
                                             MapGet(st.displayMap, idStr)),
                       displayMap |-> MapDelete(st.displayMap, idStr) ]
                ELSE IF MapHas(allProductsMap, idStr)
                THEN [ reordered  |-> Append(st.reordered,
                                             MapGet(allProductsMap, idStr)),
                       displayMap |-> st.displayMap ]
                ELSE [ reordered  |-> Append(st.reordered, stub),
                       displayMap |-> st.displayMap ]
         IN  PlaceMentioned_Placeholder(next, Tail(mentionedIds),
                                        allProductsMap)

\* Variant: a mentioned id is looked up in the display map only
RECURSIVE PlaceMentioned_DisplayOnly(_, _, _)
PlaceMentioned_DisplayOnly(st, mentionedIds, allProductsMap) ==
    IF mentionedIds = <<>> THEN st
    ELSE LET idStr == Head(mentionedIds)
             next  ==
                IF MapHas(st.displayMap, idStr)
                THEN [ reordered  |-> Append(st.reordered,
                                             MapGet(st.displayMap, idStr)),
                       displayMap |-> MapDelete(st.displayMap, idStr) ]
                ELSE st
         IN  PlaceMentioned_DisplayOnly(next, Tail(mentionedIds),
                                        allProductsMap)

\* mentionedIds.forEach(...): st holds reordered and displayMap
RECURSIVE PlaceMentioned(_, _, _)
PlaceMentioned(st, mentionedIds, allProductsMap) ==
    IF mentionedIds = <<>> THEN st
    ELSE LET idStr == Head(mentionedIds)
             next  ==
                IF MapHas(st.displayMap, idStr)
                THEN [ reordered  |-> Append(st.reordered,
                                             MapGet(st.displayMap, idStr)),
                       displayMap |-> MapDelete(st.displayMap, idStr) ]
                ELSE IF MapHas(allProductsMap, idStr)
                THEN [ reordered  |-> Append(st.reordered,
                                             MapGet(allProductsMap, idStr)),
                       displayMap |-> MapDelete(st.displayMap, idStr) ]
                ELSE st
         IN  PlaceMentioned(next, Tail(mentionedIds), allProductsMap)

\* Variant: every remaining display product is appended
FillRemaining_NoCap(reordered, remaining) == reordered \o remaining

\* Add remaining display products (up to 8 total)
FillRemaining(reordered, remaining) ==
    LET slotsLeft == DISPLAY_LIMIT - Len(reordered)
    IN  IF slotsLeft > 0
        THEN reordered \o Slice(remaining, slotsLeft)
        ELSE reordered

\* Variant: without a mention the whole LLM-visible list is returned
reorderProductsByMention_ReturnsAll(aiResponse, displayProducts, allAvailableProducts) ==
    LET mentionedIds == ExtractMentionedIds(<<>>, aiResponse) IN
    IF Len(mentionedIds) = 0
    THEN allAvailableProducts
    ELSE LET displayMap     == MapOfProducts(<<>>, displayProducts)
             allProductsMap == MapOfProducts(<<>>, allAvailableProducts)
             placed == PlaceMentioned(
                           [reordered |-> <<>>, displayMap |-> displayMap],
                           mentionedIds, allProductsMap)
         IN  FillRemaining(placed.reordered, MapValues(placed.displayMap))

reorderProductsByMention(aiResponse, displayProducts, allAvailableProducts) ==
    LET mentionedIds == ExtractMentionedIds(<<>>, aiResponse) IN
    IF Len(mentionedIds) = 0
    THEN displayProducts
    ELSE LET displayMap     == MapOfProducts(<<>>, displayProducts)
             allProductsMap == MapOfProducts(<<>>, allAvailableProducts)
             placed == PlaceMentioned(
                           [reordered |-> <<>>, displayMap |-> displayMap],
                           mentionedIds, allProductsMap)
         IN  FillRemaining(placed.reordered, MapValues(placed.displayMap))

\* ------------------------------------------------------------------------
\* aiPipeline.js : the gateway and intent extraction
\* ------------------------------------------------------------------------

\* search_keywords when the member is absent (undefined) in the JSON value
KeywordsUndefined == <<NullStr>>

\* A JSON value the model may return for intent extraction: an object with
\* the members the pipeline reads, the value null, or a primitive (whose
\* members all read as undefined).
IntentValue(type, kws, occ, bmin, bmax, diet, urg, itype, nc) ==
    [ type                 |-> type,
      search_keywords      |-> kws,
      occasion             |-> occ,
      budget_min           |-> bmin,
      budget_max           |-> bmax,
      dietary_restrictions |-> diet,
      urgency              |-> urg,
      intent_type          |-> itype,
      needs_clarification  |-> nc ]

JsonNull ==
    IntentValue("null", KeywordsUndefined, NullStr, Null, Null, <<>>,
                "null", "undefined", FALSE)

JsonNumber ==
    IntentValue("number", KeywordsUndefined, NullStr, Null, Null, <<>>,
                "null", "undefined", FALSE)

\* The value of `intent` before extractIntent has returned
NoIntent ==
    IntentValue("none", KeywordsUndefined, NullStr, Null, Null, <<>>,
                "null", "undefined", FALSE)

\* A fallback intent that takes the whole message as its keyword
FallbackIntent_WholeMessage(userMessage) ==
    IntentValue("object", << userMessage >>,
                NullStr, Null, Null, <<>>, "null", "browse", FALSE)

\* The fallback intent of extractIntent's catch block
FallbackIntent(userMessage) ==
    IntentValue("object",
                << JoinSpace(Slice(SplitSpace(userMessage), 3)) >>,
                NullStr, Null, Null, <<>>, "null", "browse", FALSE)

\* The text returned by callLLM for extraction: prose or the empty string
\* (JSON.parse throws), a JSON text, or a JSON text in a markdown code fence
\* (stripped before JSON.parse).
ExtractionText(form, value) == [form |-> form, value |-> value]

\* The try/catch of extractIntent
ParseIntent(result, userMessage) ==
    IF result.form \in {"json", "fenced"}
    THEN result.value
    ELSE FallbackIntent(userMessage)

\* One call of callLLM / callLLMStream as the gateway log records it
GatewayCall(purpose, streaming, temperature10, sent, status) ==
    [ purpose       |-> purpose,
      streaming     |-> streaming,
      temperature10 |-> temperature10,
      sent          |-> sent,
      status        |-> status ]

\* The error callLLM / callLLMStream throws for a failed call
GatewayError(hasKey, status) ==
    IF ~hasKey THEN "ConfigurationError"
    ELSE IF status = "http_error" THEN "ExternalServiceError:status"
    ELSE "ExternalServiceError:transport"

\* ------------------------------------------------------------------------
\* aiPipeline.js : compareProducts
\* ------------------------------------------------------------------------

\* A value handed over as allProducts: an array of products, or a string
ArrayOf(items) == [type |-> "array", items |-> items]

StringOf(chars) == [type |-> "string", chars |-> chars]

msgSelectTwo == <<"Please select at least 2 products to compare.">>

\* allProducts.filter((p) => productIds.includes(p.id)); the projection by
\* cleanProductForLLM that follows keeps the length
ProductsToCompare(productIds, items) ==
    LET Selected(p) == p.id \in Range(productIds)
    IN  FilterSeq(Selected, items)

\* Variant: compareProducts without the test of productsToCompare.length
ComparePlan_NoValidation(productIds, allProducts) ==
    IF allProducts.type # "array" THEN "throw" ELSE "call"

\* What compareProducts does before any await: `allProducts.filter` is not
\* a function unless allProducts is an array (TypeError); fewer than 2
\* selected products give the validation message; otherwise callLLM
ComparePlan(productIds, allProducts) ==
    IF allProducts.type # "array" THEN "throw"
    ELSE IF Len(ProductsToCompare(productIds, allProducts.items)) < 2
         THEN "validation"
         ELSE "call"

\* aiPipeline.js : searchFromIntent
\* ------------------------------------------------------------------------

\* let keywords = intent.search_keywords || []
KeywordsOf(intent) ==
    IF intent.search_keywords = KeywordsUndefined
    THEN <<>> ELSE intent.search_keywords

\* intent.occasion && intent.occasion !== "null"
\*     && !keywords.includes(intent.occasion)
AddsOccasion(intent) ==
    /\ TruthyStr(intent.occasion)
    /\ intent.occasion # strNull
    /\ intent.occasion \notin Range(KeywordsOf(intent))

\* keywords after keywords.push(intent.occasion.replace("_", " "))
KeywordsWithOccasion(intent) ==
    IF AddsOccasion(intent)
    THEN Append(KeywordsOf(intent), ReplaceFirst(intent.occasion, "_", " "))
    ELSE KeywordsOf(intent)

\* keywords is the intent's own array unless the member was absent, so the
\* push is visible in the intent object
IntentAfterSearch(intent) ==
    IF intent.search_keywords # KeywordsUndefined
    THEN [intent EXCEPT !.search_keywords = KeywordsWithOccasion(intent)]
    ELSE intent

FALLBACK_KEYWORDS == <<kwPopularGifts, kwBestSellers>>

MAX_KEYWORDS == 3

\* The keyword list without the cut to MAX_KEYWORDS
SearchKeywordsFor_NoSlice(intent) ==
    LET kws == KeywordsWithOccasion(intent)
    IN  IF Len(kws) = 0 THEN FALLBACK_KEYWORDS ELSE kws

\* The keyword list searchFromIntent hands to multiSearch
SearchKeywordsFor(intent) ==
    LET kws == KeywordsWithOccasion(intent)
    IN  Slice(IF Len(kws) = 0 THEN FALLBACK_KEYWORDS ELSE kws, MAX_KEYWORDS)

\* ------------------------------------------------------------------------
\* Bounds and input sets
\* ------------------------------------------------------------------------

\* Longest keyword list handed directly to multiSearch
MaxKeywords == 2

\* Number of clock advances in a run of the catalog client
MaxTicks == 1

\* Number of direct calls of searchProducts in a run
MaxCalls == 2

\* Longest product list handed to filterProducts on its own
MaxProducts == 3

\* Longest free-form generated text (in tokens) handed to reconciliation
MaxTokens == 3

\* Longest free-form generated text (in tokens) in a pipeline turn
MaxTurnTokens == 1

Messages == {msgHi, msgGift}

IntentKeywordLists ==
    { KeywordsUndefined,
      <<>>,
      <<kwBirthdayRaw, kwMom>>,
      <<kwGetWell>>,
      <<kwMom, kwGetWell, kwBirthday, kwBlank>> }

IntentObjects ==
    { IntentValue("object", k, o, bmin, bmax, d, u, "specific_search", nc) :
        k \in IntentKeywordLists,
        o \in {NullStr, strNull, kwBirthday, occGetWell},
        bmin \in {Null, 30},
        bmax \in {Null, 0, 50},
        d \in {<<>>, <<strEgg>>},
        u \in {"null", "one_hour"},
        nc \in BOOLEAN }

JsonValues == {JsonNull, JsonNumber} \cup IntentObjects

ExtractionTexts ==
    { ExtractionText("prose", JsonNull), ExtractionText("empty", JsonNull) }
    \cup { ExtractionText(f, v) : f \in {"json", "fenced"}, v \in JsonValues }

GatewayStatuses == {"ok", "http_error", "transport_error"}

FetchStatuses == {"ok", "http_error", "transport_error"}

\* Keywords a direct caller hands to multiSearch
SearchKeywords == {kwBirthdayRaw, kwGetWell, kwBlank, kwEmpty}

\* Keywords a direct caller hands to searchProducts
ClientKeywords == {kwBirthdayRaw, kwBirthday, kwGetWell}

\* The catalog in ranked order, and the identifiers in that order
RankedCatalog ==
    SortProducts(CHOOSE r \in CatalogResponses(kwBirthday) : TRUE)

TagOf(product) == Tag(Digits(product.id))

\* Texts that mention many products: the first k products of the ranking,
\* k above the display limit, first to last or last to first
LongTexts ==
    LET Fwd(k) == [i \in 1..k |-> TagOf(RankedCatalog[i])]
        Bwd(k) == [i \in 1..k |-> TagOf(RankedCatalog[k + 1 - i])]
    IN  UNION { {Fwd(k), Bwd(k)} : k \in DISPLAY_LIMIT..Len(RankedCatalog) }

\* Tokens of free-form texts: a stretch of prose, tags of a product of the
\* nominal display set, of a product outside it, of no product, and a tag
\* whose digits have a leading zero
Tokens ==
    { Word, Tag(<<2, 0>>), Tag(<<5, 5>>), Tag(<<8, 0>>), Tag(<<9, 9>>),
      Tag(<<0, 2, 0>>) }

Texts == SeqsUpTo(Tokens, MaxTokens) \cup LongTexts

TurnTokens == { Word, Tag(<<2, 0>>), Tag(<<5, 5>>), Tag(<<9, 9>>) }

TurnTexts == SeqsUpTo(TurnTokens, MaxTurnTokens) \cup LongTexts

\* ------------------------------------------------------------------------
\* State
\* ------------------------------------------------------------------------

VARIABLES
    cache,            \* searchCache of edibleApi.js: key -> {data, timestamp}
    now,              \* Date.now()
    ticks,            \* number of clock advances so far
    mode,             \* entry point running: "complete", "stream", "search",
                      \* "client", "reorder", "filter", "rank", "chat",
                      \* "compare", "panel", "grid"
    pc,               \* position of the running invocation
    apiKey,           \* whether NVIDIA_NIM_API_KEY is set
    userMessage,      \* the message of the turn
    productIds,       \* the identifiers of a comparison request
    intent,           \* the intent object held by the turn
    filters,          \* the filters object handed to filterProducts
    keywords,         \* the argument of the running multiSearch
    subs,             \* its sub-searches, one per keyword, in keyword order
    doneOrder,        \* indices of the sub-searches in order of completion
    netCalls,         \* requests sent to the catalog by this invocation
    allProducts,      \* the value multiSearch returned
    displayProducts,  \* ranked.slice(0, 8) in display form
    topProducts,      \* ranked.slice(0, 10) in display form
    aiResponse,       \* the generated text handed to reconciliation
    gatewayLog,       \* the calls of callLLM / callLLMStream, in order
    result,           \* what the invocation returned or threw
    messages,         \* ChatPanel: the transcript
    inputValue,       \* ChatPanel: the text of the input field
    isLoading,        \* ChatPanel: a send is under way
    showChips,        \* ChatPanel: the suggestion chips are enabled
    chatFetch,        \* ChatPanel: the fetch of /api/chat under way
    sendCount,        \* ChatPanel: sends that got past the guard so far
    pageProducts,     \* Home: the products state, the grid's products prop
    compareIds,       \* ProductGrid: the ids ticked for comparison
    isComparing,      \* ProductGrid: the comparison modal is open
    compareResult     \* ProductGrid: the products of the modal, or null

\* The state of the page's components
uiVars ==
    << messages, inputValue, isLoading, showChips, chatFetch, sendCount,
       pageProducts, compareIds, isComparing, compareResult >>

vars ==
    << cache, now, ticks, mode, pc, apiKey, userMessage, productIds, uiVars, intent, filters,
       keywords,
       subs, doneOrder, netCalls, allProducts, displayProducts, topProducts,
       aiResponse, gatewayLog, result >>

searchVars == << keywords, subs, doneOrder, netCalls, allProducts >>

turnVars ==
    << apiKey, userMessage, productIds, uiVars, intent, filters, displayProducts, topProducts,
       aiResponse,
       gatewayLog >>

NoResult ==
    [status |-> "pending", error |-> "", message |-> <<>>, products |-> <<>>]

Returned(message, products) ==
    [status |-> "returned", error |-> "", message |-> message,
     products |-> products]

Threw(error) ==
    [status |-> "threw", error |-> error, message |-> <<>>, products |-> <<>>]

\* No fetch of /api/chat under way
NoFetch == [status |-> "none", message |-> <<>>, products |-> <<>>]

\* useState(null)
NullValue == [type |-> "null", items |-> <<>>]

\* The components as they are mounted: useState([]), useState(""),
\* useState(false), useState(true), useState(new Set()), useState(null)
NoUi ==
    /\ messages = <<>>
    /\ inputValue = <<>>
    /\ isLoading = FALSE
    /\ showChips = TRUE
    /\ chatFetch = NoFetch
    /\ sendCount = 0
    /\ pageProducts = <<>>
    /\ compareIds = {}
    /\ isComparing = FALSE
    /\ compareResult = NullValue

\* filterProducts(products) : the default `filters = {}`
NoFilters ==
    [ minBudget |-> Null, maxBudget |-> Null, occasion |-> NullStr,
      excludeIngredients |-> <<>>, urgentDelivery |-> FALSE ]

EmptyCache == [k \in {} |-> [data |-> <<>>, timestamp |-> 0]]

\* ------------------------------------------------------------------------
\* The catalog client in action: multiSearch and its sub-searches
\* ------------------------------------------------------------------------

AllResolved == \A i \in 1..Len(subs) : subs[i].state = "resolved"

PendingCount(ss) == Cardinality({ i \in 1..Len(ss) : ss[i].state = "pending" })

\* Indices of the sub-searches that resolved without a request, in order
RECURSIVE ResolvedAtStart(_, _)
ResolvedAtStart(ss, i) ==
    IF i > Len(ss) THEN <<>>
    ELSE (IF ss[i].state = "resolved" THEN <<i>> ELSE <<>>)
         \o ResolvedAtStart(ss, i + 1)

\* multiSearch(kws) up to `await Promise.all(...)`, for a non-empty list
BeginMultiSearch(kws) ==
    LET st == StartSubSearches(kws, cache, now) IN
    /\ keywords' = kws
    /\ subs' = st.subs
    /\ cache' = st.cache
    /\ doneOrder' = ResolvedAtStart(st.subs, 1)
    /\ netCalls' = PendingCount(st.subs)
    /\ allProducts' = <<>>

\* A direct call of multiSearch
MultiSearchCall(kws) ==
    /\ mode = "search"
    /\ pc = "idle"
    /\ IF Len(kws) = 0
       THEN /\ keywords' = kws
            /\ subs' = <<>>
            /\ doneOrder' = <<>>
            /\ netCalls' = 0
            /\ allProducts' = <<>>
            /\ pc' = "returned"
            /\ UNCHANGED cache
       ELSE /\ BeginMultiSearch(kws)
            /\ pc' = "searching"
    /\ UNCHANGED << now, ticks, mode, turnVars, result >>

\* What the catalog endpoint may do with a request for key
FetchOutcomes(key) ==
    { [status |-> "ok", data |-> d] : d \in CatalogResponses(key) }
    \cup { [status |-> s, data |-> <<>>] : s \in FetchStatuses \ {"ok"} }

\* Variant: a failed request is rethrown to the caller and not absorbed
FetchReturn_Propagates(i) ==
    /\ pc = "searching"
    /\ i \in 1..Len(subs)
    /\ subs[i].state = "pending"
    /\ \E out \in FetchOutcomes(subs[i].key) :
          /\ subs' = [subs EXCEPT ![i] =
                        [@ EXCEPT !.state = "resolved",
                                  !.how = out.status,
                                  !.data = out.data]]
          /\ cache' = IF out.status = "ok"
                      THEN CacheSet(cache, subs[i].key, out.data, now)
                      ELSE cache
          /\ pc' = IF out.status = "ok" THEN pc ELSE "failed"
          /\ result' = IF out.status = "ok" THEN result
                       ELSE Threw("ExternalServiceError:catalog")
    /\ doneOrder' = Append(doneOrder, i)
    /\ UNCHANGED << now, ticks, mode, turnVars, keywords, netCalls,
                    allProducts >>

\* Variant: the answer is stored whatever the outcome of the request
FetchReturn_CachesFailure(i) ==
    /\ pc = "searching"
    /\ i \in 1..Len(subs)
    /\ subs[i].state = "pending"
    /\ \E out \in FetchOutcomes(subs[i].key) :
          /\ subs' = [subs EXCEPT ![i] =
                        [@ EXCEPT !.state = "resolved",
                                  !.how = out.status,
                                  !.data = out.data]]
          /\ cache' = CacheSet(cache, subs[i].key, out.data, now)
    /\ doneOrder' = Append(doneOrder, i)
    /\ UNCHANGED << now, ticks, mode, pc, turnVars, keywords, netCalls,
                    allProducts, result >>

\* searchProducts after its await: the i-th sub-search gets its answer
FetchReturn(i) ==
    /\ pc = "searching"
    /\ i \in 1..Len(subs)
    /\ subs[i].state = "pending"
    /\ \E out \in FetchOutcomes(subs[i].key) :
          /\ subs' = [subs EXCEPT ![i] =
                        [@ EXCEPT !.state = "resolved",
                                  !.how = out.status,
                                  !.data = out.data]]
          /\ cache' = IF out.status = "ok"
                      THEN CacheSet(cache, subs[i].key, out.data, now)
                      ELSE cache
    /\ doneOrder' = Append(doneOrder, i)
    /\ UNCHANGED << now, ticks, mode, pc, turnVars, keywords, netCalls,
                    allProducts, result >>

\* multiSearch after Promise.all has resolved: merge and return
MultiSearchReturn ==
    /\ mode = "search"
    /\ pc = "searching"
    /\ AllResolved
    /\ allProducts' = MergeResults(<<>>, PromiseAllResults(subs, doneOrder))
    /\ pc' = "returned"
    /\ UNCHANGED << cache, now, ticks, mode, turnVars, keywords, subs,
                    doneOrder, netCalls, result >>

\* The caller has taken the merged list: the invocation is over and its
\* locals are gone; the cache stays
MultiSearchDone ==
    /\ mode = "search"
    /\ pc = "returned"
    /\ pc' = "idle"
    /\ keywords' = <<>>
    /\ subs' = <<>>
    /\ doneOrder' = <<>>
    /\ netCalls' = 0
    /\ allProducts' = <<>>
    /\ UNCHANGED << cache, now, ticks, mode, turnVars, result >>

TickSteps == {CACHE_TTL - 1, CACHE_TTL}

\* Time passes
Tick(d) ==
    /\ ticks < MaxTicks
    /\ now' = now + d
    /\ ticks' = ticks + 1
    /\ UNCHANGED << cache, mode, pc, turnVars, searchVars, result >>

InitSearch ==
    /\ cache = EmptyCache
    /\ NoUi
    /\ now = 0
    /\ ticks = 0
    /\ mode = "search"
    /\ pc = "idle"
    /\ apiKey = TRUE
    /\ userMessage = <<>>
    /\ productIds = <<>>
    /\ filters = NoFilters
    /\ intent = NoIntent
    /\ keywords = <<>>
    /\ subs = <<>>
    /\ doneOrder = <<>>
    /\ netCalls = 0
    /\ allProducts = <<>>
    /\ displayProducts = <<>>
    /\ topProducts = <<>>
    /\ aiResponse = <<>>
    /\ gatewayLog = <<>>
    /\ result = NoResult

NextSearch ==
    \/ \E kws \in SeqsUpTo(SearchKeywords, MaxKeywords) : MultiSearchCall(kws)
    \/ \E i \in 1..MaxKeywords : FetchReturn(i)
    \/ MultiSearchReturn
    \/ MultiSearchDone
    \/ \E d \in TickSteps : Tick(d)

SpecSearch == InitSearch /\ [][NextSearch]_vars

\* ------------------------------------------------------------------------
\* searchProducts called directly: a call may start while earlier ones are
\* still awaiting their answer, and the calls made so far stay on record
\* (keywords and subs in the order of the calls)
\* ------------------------------------------------------------------------

\* searchProducts(keyword) up to its first await, or to its return when it
\* has none
SearchProductsCall(keyword) ==
    /\ mode = "client"
    /\ Len(subs) < MaxCalls
    /\ LET begin == SearchProductsBegin(keyword, cache, now)
           i     == Len(subs) + 1
       IN  /\ keywords' = Append(keywords, keyword)
           /\ subs' = Append(subs, begin.sub)
           /\ cache' = begin.cache
           /\ doneOrder' = IF begin.sub.state = "resolved"
                           THEN Append(doneOrder, i) ELSE doneOrder
           /\ netCalls' = IF begin.sub.state = "pending"
                          THEN netCalls + 1 ELSE netCalls
    /\ UNCHANGED << now, ticks, mode, pc, turnVars, allProducts, result >>

InitClient ==
    /\ cache = EmptyCache
    /\ NoUi
    /\ now = 0
    /\ ticks = 0
    /\ mode = "client"
    /\ pc = "searching"
    /\ apiKey = TRUE
    /\ userMessage = <<>>
    /\ productIds = <<>>
    /\ filters = NoFilters
    /\ intent = NoIntent
    /\ keywords = <<>>
    /\ subs = <<>>
    /\ doneOrder = <<>>
    /\ netCalls = 0
    /\ allProducts = <<>>
    /\ displayProducts = <<>>
    /\ topProducts = <<>>
    /\ aiResponse = <<>>
    /\ gatewayLog = <<>>
    /\ result = NoResult

NextClient ==
    \/ \E keyword \in ClientKeywords : SearchProductsCall(keyword)
    \/ \E i \in 1..MaxCalls : FetchReturn(i)
    \/ \E d \in TickSteps : Tick(d)

SpecClient == InitClient /\ [][NextClient]_vars

\* ------------------------------------------------------------------------
\* The pipeline turn: processMessage (mode "complete") and
\* processMessageStream (mode "stream")
\* ------------------------------------------------------------------------

\* Variant: the request is sent whether or not the credential is set
CallStatuses_AlwaysSends == GatewayStatuses

\* What a call of the gateway may come to: without a credential nothing is
\* sent; otherwise the request succeeds or fails
CallStatuses == IF apiKey THEN GatewayStatuses ELSE {"not_sent"}

LogCall(purpose, streaming, temperature10, status) ==
    gatewayLog' = Append(gatewayLog,
                         GatewayCall(purpose, streaming, temperature10,
                                     apiKey, status))

\* Variant: the extraction call sits inside the try block, so that a failed
\* call yields the fallback intent
ExtractIntent_SwallowsFailure ==
    /\ mode \in {"complete", "stream"}
    /\ pc = "extract"
    /\ \E status \in CallStatuses :
          /\ LogCall("extract", FALSE, 0, status)
          /\ IF status = "ok"
             THEN \E text \in ExtractionTexts :
                     intent' = ParseIntent(text, userMessage)
             ELSE intent' = FallbackIntent(userMessage)
          /\ pc' = "branch"
          /\ result' = result
    /\ UNCHANGED << cache, now, ticks, mode, apiKey, userMessage, productIds, uiVars,
                    filters, searchVars,
                    displayProducts, topProducts, aiResponse >>

\* extractIntent: one callLLM at temperature 0, then the parse with its
\* fallback; a failed call throws out of the turn
ExtractIntent ==
    /\ mode \in {"complete", "stream"}
    /\ pc = "extract"
    /\ \E status \in CallStatuses :
          /\ LogCall("extract", FALSE, 0, status)
          /\ IF status = "ok"
             THEN \E text \in ExtractionTexts :
                     /\ intent' = ParseIntent(text, userMessage)
                     /\ pc' = "branch"
                     /\ result' = result
             ELSE /\ intent' = intent
                  /\ pc' = "failed"
                  /\ result' = Threw(GatewayError(apiKey, status))
    /\ UNCHANGED << cache, now, ticks, mode, apiKey, userMessage, productIds, uiVars,
                    filters, searchVars,
                    displayProducts, topProducts, aiResponse >>

\* `intent.needs_clarification` when JSON.parse returned null
BranchThrows ==
    /\ mode \in {"complete", "stream"}
    /\ pc = "branch"
    /\ intent.type = "null"
    /\ pc' = "failed"
    /\ result' = Threw("TypeError")
    /\ UNCHANGED << cache, now, ticks, mode, turnVars, searchVars >>

\* Texts the model may return for a clarification
ClarificationTexts == { <<>>, <<Word>> }

\* The clarification branch: one gateway call, no catalog access
Clarify ==
    /\ mode \in {"complete", "stream"}
    /\ pc = "branch"
    /\ intent.type # "null"
    /\ intent.needs_clarification
    /\ \E status \in CallStatuses :
          /\ LogCall("clarify", mode = "stream", 7, status)
          /\ IF status = "ok"
             THEN /\ pc' = "done"
                  /\ \E text \in ClarificationTexts :
                        result' = Returned(IF mode = "stream" THEN <<>> ELSE text,
                                           <<>>)
             ELSE /\ pc' = "failed"
                  /\ result' = Threw(GatewayError(apiKey, status))
    /\ UNCHANGED << cache, now, ticks, mode, apiKey, userMessage, productIds, uiVars,
                    filters, intent,
                    searchVars, displayProducts, topProducts, aiResponse >>

\* Variant: the search step without the clarification branch before it
SearchFromIntent_Unguarded ==
    /\ mode \in {"complete", "stream"}
    /\ pc = "branch"
    /\ intent.type # "null"
    /\ intent' = IntentAfterSearch(intent)
    /\ BeginMultiSearch(SearchKeywordsFor(intent))
    /\ pc' = "searching"
    /\ UNCHANGED << now, ticks, mode, apiKey, userMessage, productIds, uiVars,
                    filters, displayProducts,
                    topProducts, aiResponse, gatewayLog, result >>

\* searchFromIntent up to the await inside multiSearch
SearchFromIntent ==
    /\ mode \in {"complete", "stream"}
    /\ pc = "branch"
    /\ intent.type # "null"
    /\ ~intent.needs_clarification
    /\ intent' = IntentAfterSearch(intent)
    /\ BeginMultiSearch(SearchKeywordsFor(intent))
    /\ pc' = "searching"
    /\ UNCHANGED << now, ticks, mode, apiKey, userMessage, productIds, uiVars,
                    filters, displayProducts,
                    topProducts, aiResponse, gatewayLog, result >>

\* Variant: ranking and prompting without waiting for the sub-searches
RankAndPrompt_Early ==
    /\ mode \in {"complete", "stream"}
    /\ pc = "searching"
    /\ LET merged == MergeResults(<<>>, PromiseAllResults(subs, doneOrder))
           ranked == filterAndRank(merged, intent)
       IN  /\ allProducts' = merged
           /\ topProducts' =
                 MapSeq(formatProductForDisplay, Slice(ranked, LLM_LIMIT))
           /\ displayProducts' =
                 MapSeq(formatProductForDisplay, Slice(ranked, DISPLAY_LIMIT))
    /\ filters' = FiltersFromIntent(intent)
    /\ subs' = <<>>
    /\ doneOrder' = <<>>
    /\ pc' = "generate"
    /\ UNCHANGED << cache, now, ticks, mode, apiKey, userMessage, productIds, uiVars, intent,
                    keywords, netCalls, aiResponse, gatewayLog, result >>

\* Variant: the ranking sorts the arrays the cache holds
RankAndPrompt_SortsCached ==
    /\ mode \in {"complete", "stream"}
    /\ pc = "searching"
    /\ AllResolved
    /\ LET merged == MergeResults(<<>>, PromiseAllResults(subs, doneOrder))
           ranked == filterAndRank(merged, intent)
       IN  /\ allProducts' = merged
           /\ topProducts' =
                 MapSeq(formatProductForDisplay, Slice(ranked, LLM_LIMIT))
           /\ displayProducts' =
                 MapSeq(formatProductForDisplay, Slice(ranked, DISPLAY_LIMIT))
    /\ cache' = [ key \in DOMAIN cache |->
                    [cache[key] EXCEPT !.data = SortProducts(@)] ]
    /\ filters' = FiltersFromIntent(intent)
    /\ subs' = <<>>
    /\ doneOrder' = <<>>
    /\ pc' = "generate"
    /\ UNCHANGED << now, ticks, mode, apiKey, userMessage, productIds, uiVars, intent,
                    keywords, netCalls, aiResponse, gatewayLog, result >>

\* multiSearch merges and returns; filterAndRank; the top 10 and top 8 are
\* cut and projected for display
RankAndPrompt ==
    /\ mode \in {"complete", "stream"}
    /\ pc = "searching"
    /\ AllResolved
    /\ LET merged == MergeResults(<<>>, PromiseAllResults(subs, doneOrder))
           ranked == filterAndRank(merged, intent)
       IN  /\ allProducts' = merged
           /\ topProducts' =
                 MapSeq(formatProductForDisplay, Slice(ranked, LLM_LIMIT))
           /\ displayProducts' =
                 MapSeq(formatProductForDisplay, Slice(ranked, DISPLAY_LIMIT))
    /\ filters' = FiltersFromIntent(intent)
    /\ subs' = <<>>
    /\ doneOrder' = <<>>
    /\ pc' = "generate"
    /\ UNCHANGED << cache, now, ticks, mode, apiKey, userMessage, productIds, uiVars, intent,
                    keywords, netCalls, aiResponse, gatewayLog, result >>

\* Variant: the streaming turn reconciles its products with a text as well
Generate_StreamReconciles ==
    /\ mode \in {"complete", "stream"}
    /\ pc = "generate"
    /\ \E status \in CallStatuses :
          /\ LogCall("generate", mode = "stream", 7, status)
          /\ IF status # "ok"
             THEN /\ pc' = "failed"
                  /\ result' = Threw(GatewayError(apiKey, status))
                  /\ aiResponse' = aiResponse
             ELSE /\ pc' = "done"
                  /\ \E text \in TurnTexts :
                        /\ aiResponse' = IF mode = "stream" THEN aiResponse
                                         ELSE text
                        /\ result' =
                              Returned(IF mode = "stream" THEN <<>> ELSE text,
                                       reorderProductsByMention(
                                           text, displayProducts,
                                           topProducts))
    /\ UNCHANGED << cache, now, ticks, mode, apiKey, userMessage, productIds, uiVars,
                    filters, intent,
                    searchVars, displayProducts, topProducts >>

\* The generation call; processMessage then reconciles the products with
\* the text, processMessageStream returns the nominal display list
Generate ==
    /\ mode \in {"complete", "stream"}
    /\ pc = "generate"
    /\ \E status \in CallStatuses :
          /\ LogCall("generate", mode = "stream", 7, status)
          /\ IF status # "ok"
             THEN /\ pc' = "failed"
                  /\ result' = Threw(GatewayError(apiKey, status))
                  /\ aiResponse' = aiResponse
             ELSE /\ pc' = "done"
                  /\ IF mode = "stream"
                     THEN /\ aiResponse' = aiResponse
                          /\ result' = Returned(<<>>, displayProducts)
                     ELSE \E text \in TurnTexts :
                             /\ aiResponse' = text
                             /\ result' =
                                   Returned(text,
                                            reorderProductsByMention(
                                                text, displayProducts,
                                                topProducts))
    /\ UNCHANGED << cache, now, ticks, mode, apiKey, userMessage, productIds, uiVars,
                    filters, intent,
                    searchVars, displayProducts, topProducts >>

Init ==
    /\ cache = EmptyCache
    /\ NoUi
    /\ now = 0
    /\ ticks = 0
    /\ mode \in {"complete", "stream"}
    /\ pc = "extract"
    /\ apiKey \in BOOLEAN
    /\ userMessage \in Messages
    /\ productIds = <<>>
    /\ filters = NoFilters
    /\ intent = NoIntent
    /\ keywords = <<>>
    /\ subs = <<>>
    /\ doneOrder = <<>>
    /\ netCalls = 0
    /\ allProducts = <<>>
    /\ displayProducts = <<>>
    /\ topProducts = <<>>
    /\ aiResponse = <<>>
    /\ gatewayLog = <<>>
    /\ result = NoResult

Next ==
    \/ ExtractIntent
    \/ BranchThrows
    \/ Clarify
    \/ SearchFromIntent
    \/ \E i \in 1..MAX_KEYWORDS : FetchReturn(i)
    \/ RankAndPrompt
    \/ Generate

Spec == Init /\ [][Next]_vars

\* ------------------------------------------------------------------------
\* Reconciliation alone: reorderProductsByMention applied to the display
\* lists of a ranked list and a generated text
\* ------------------------------------------------------------------------

\* Ranked lists handed to the slicing of processMessage
RankedLists == { Slice(RankedCatalog, n) : n \in 0..Len(RankedCatalog) }

Reconcile ==
    /\ mode = "reorder"
    /\ pc = "reconcile"
    /\ result' = Returned(aiResponse,
                          reorderProductsByMention(aiResponse, displayProducts,
                                                   topProducts))
    /\ pc' = "done"
    /\ UNCHANGED << cache, now, ticks, mode, turnVars, searchVars >>

InitReorder ==
    /\ cache = EmptyCache
    /\ NoUi
    /\ now = 0
    /\ ticks = 0
    /\ mode = "reorder"
    /\ pc = "reconcile"
    /\ apiKey = TRUE
    /\ userMessage = <<>>
    /\ productIds = <<>>
    /\ filters = NoFilters
    /\ intent = NoIntent
    /\ keywords = <<>>
    /\ subs = <<>>
    /\ doneOrder = <<>>
    /\ netCalls = 0
    /\ allProducts = <<>>
    /\ \E ranked \in RankedLists :
          /\ topProducts =
                MapSeq(formatProductForDisplay, Slice(ranked, LLM_LIMIT))
          /\ displayProducts =
                MapSeq(formatProductForDisplay, Slice(ranked, DISPLAY_LIMIT))
    /\ aiResponse \in Texts
    /\ gatewayLog = <<>>
    /\ result = NoResult

NextReorder == Reconcile

SpecReorder == InitReorder /\ [][NextReorder]_vars

\* ------------------------------------------------------------------------
\* filterProducts alone: applied to a product list and a filters object
\* ------------------------------------------------------------------------

\* Products the lists are made of: with and without a price, an occasion,
\* an ingredient text, one-hour delivery
FilterPool == {p10, p30, p50, p60, p70}

ProductLists == SeqsUpTo(FilterPool, MaxProducts)

\* Filters objects: bounds absent, zero, met by some products, and crossed
\* (minBudget above maxBudget); an occasion absent, matching in another
\* letter case, and matching no product; excluded terms; urgency
FilterSets ==
    [ minBudget          : {Null, 0, 30, 60},
      maxBudget          : {Null, 0, 50},
      occasion           : {NullStr, kwBirthday, occAnniversary, kwMom},
      excludeIngredients : {<<>>, <<strEgg>>, <<ingFruit, strEgg>>},
      urgentDelivery     : BOOLEAN ]

ApplyFilter ==
    /\ mode = "filter"
    /\ pc = "filter"
    /\ result' = Returned(<<>>, filterProducts(allProducts, filters))
    /\ pc' = "done"
    /\ UNCHANGED << cache, now, ticks, mode, turnVars, searchVars >>

InitFilter ==
    /\ cache = EmptyCache
    /\ NoUi
    /\ now = 0
    /\ ticks = 0
    /\ mode = "filter"
    /\ pc = "filter"
    /\ apiKey = TRUE
    /\ userMessage = <<>>
    /\ productIds = <<>>
    /\ intent = NoIntent
    /\ filters \in FilterSets
    /\ keywords = <<>>
    /\ subs = <<>>
    /\ doneOrder = <<>>
    /\ netCalls = 0
    /\ allProducts \in ProductLists
    /\ displayProducts = <<>>
    /\ topProducts = <<>>
    /\ aiResponse = <<>>
    /\ gatewayLog = <<>>
    /\ result = NoResult

NextFilter == ApplyFilter

SpecFilter == InitFilter /\ [][NextFilter]_vars

\* ------------------------------------------------------------------------
\* filterAndRank alone: applied to a product list and an intent
\* ------------------------------------------------------------------------

\* Products the lists are made of: two top sellers with low scores, and
\* others of which two have the same score
RankPool == {p10, p20, p30, p90, p95}

RankLists == SeqsUpTo(RankPool, MaxProducts)

\* Intents whose filters keep everything, or drop some of the products
RankIntents ==
    { IntentValue("object", <<>>, o, Null, bmax, <<>>, "null",
                  "specific_search", FALSE) :
        o \in {NullStr, kwBirthday}, bmax \in {Null, 50} }

ApplyRank ==
    /\ mode = "rank"
    /\ pc = "rank"
    /\ filters' = FiltersFromIntent(intent)
    /\ result' = Returned(<<>>, filterAndRank(allProducts, intent))
    /\ pc' = "done"
    /\ UNCHANGED << cache, now, ticks, mode, apiKey, userMessage, productIds, uiVars, intent,
                    displayProducts, topProducts, aiResponse, gatewayLog,
                    searchVars >>

InitRank ==
    /\ cache = EmptyCache
    /\ NoUi
    /\ now = 0
    /\ ticks = 0
    /\ mode = "rank"
    /\ pc = "rank"
    /\ apiKey = TRUE
    /\ userMessage = <<>>
    /\ productIds = <<>>
    /\ intent \in RankIntents
    /\ filters = NoFilters
    /\ keywords = <<>>
    /\ subs = <<>>
    /\ doneOrder = <<>>
    /\ netCalls = 0
    /\ allProducts \in RankLists
    /\ displayProducts = <<>>
    /\ topProducts = <<>>
    /\ aiResponse = <<>>
    /\ gatewayLog = <<>>
    /\ result = NoResult

NextRank == ApplyRank

SpecRank == InitRank /\ [][NextRank]_vars

\* ------------------------------------------------------------------------
\* extractIntent after its gateway call has returned: the parse of the
\* returned text with its fallback, then the branch of the turn
\* ------------------------------------------------------------------------

msgSpaced == <<"a"," "," ","b"," ","c">>

\* Messages of fewer than three words, of more, with a run of spaces, empty
ExtractMessages == Messages \cup {msgSpaced, <<>>}

\* Values a parseable text stands for: null, a number, an intent that asks
\* for a clarification and one that does not
ReplyValues ==
    { JsonNull,
      JsonNumber,
      IntentValue("object", <<kwGetWell>>, NullStr, Null, Null, <<>>,
                  "null", "specific_search", TRUE),
      IntentValue("object", <<kwGetWell>>, kwBirthday, Null, Null, <<>>,
                  "null", "specific_search", FALSE) }

\* Texts callLLM may have returned: prose, the empty string and prose in a
\* code fence do not parse; a JSON text parses, bare or in a code fence
ExtractReplies ==
    { ExtractionText(f, JsonNull) : f \in {"prose", "empty", "fenced_prose"} }
    \cup { ExtractionText(f, v) : f \in {"json", "fenced"}, v \in ReplyValues }

\* The try/catch of extractIntent over the text in hand
ParseReply ==
    /\ mode \in {"complete", "stream"}
    /\ pc = "parse"
    /\ intent' = ParseIntent(aiResponse, userMessage)
    /\ pc' = "branch"
    /\ UNCHANGED << cache, now, ticks, mode, apiKey, userMessage, productIds, uiVars, filters,
                    searchVars, displayProducts, topProducts, aiResponse,
                    gatewayLog, result >>

\* The extraction call has been made and has returned the text aiResponse
InitExtract ==
    /\ cache = EmptyCache
    /\ NoUi
    /\ now = 0
    /\ ticks = 0
    /\ mode \in {"complete", "stream"}
    /\ pc = "parse"
    /\ apiKey = TRUE
    /\ userMessage \in ExtractMessages
    /\ productIds = <<>>
    /\ filters = NoFilters
    /\ intent = NoIntent
    /\ keywords = <<>>
    /\ subs = <<>>
    /\ doneOrder = <<>>
    /\ netCalls = 0
    /\ allProducts = <<>>
    /\ displayProducts = <<>>
    /\ topProducts = <<>>
    /\ aiResponse \in ExtractReplies
    /\ gatewayLog = << GatewayCall("extract", FALSE, 0, TRUE, "ok") >>
    /\ result = NoResult

NextExtract ==
    \/ ParseReply
    \/ BranchThrows
    \/ Clarify
    \/ SearchFromIntent

SpecExtract == InitExtract /\ [][NextExtract]_vars

\* ------------------------------------------------------------------------
\* Comparison: compareProducts called with a product list (mode "compare"),
\* and the POST handler of /api/chat (mode "chat")
\* ------------------------------------------------------------------------

\* What compareProducts returns: an object with a message only
ReturnedMessage(message) == [status |-> "returned", message |-> message]

msgWentWrong == <<"Something went wrong. Please try again.">>

msgRequired == <<"Message is required">>

\* error.message of what callLLM and compareProducts throw
ErrorMessage(error) ==
    IF error = "ConfigurationError"
    THEN <<"NVIDIA_NIM_API_KEY is not set in environment variables">>
    ELSE IF error = "ExternalServiceError:status"
    THEN <<"NVIDIA NIM API error: ", "status">>
    ELSE IF error = "TypeError"
    THEN <<"allProducts.filter is not a function">>
    ELSE <<"fetch failed">>

\* The JSON response of the POST handler for a result
Response(code, message) ==
    [status |-> "response", code |-> code, message |-> message,
     error |-> NullStr, details |-> NullStr]

\* The JSON response with an error member: status 400 without details,
\* the catch block's status 500 with details: error.message
ErrorResponse(code, error, details) ==
    [status |-> "response", code |-> code, message |-> NullStr,
     error |-> error, details |-> details]

\* Identifiers of listed products and one of no product
CompareIds == {10, 20, 99}

IdLists == SeqsUpTo(CompareIds, MaxProducts)

\* Product lists a caller holds: no identifier twice, as multiSearch
\* returns them
CompareLists ==
    { s \in SeqsUpTo({p10, p20, p30}, MaxProducts) : IsInjective(s) }

\* Texts the model may return for a comparison
ComparisonTexts == { <<>>, <<Word>> }

\* The POST handler up to its first await on the pipeline: a comparison
\* list of 2 or more goes to compareProducts, with `message || ""` in the
\* place of allProducts; otherwise (an absent list counts as an empty one)
\* a missing message is answered with 400 and any other message goes to
\* processMessage
Post ==
    /\ mode = "chat"
    /\ pc = "request"
    /\ IF Len(productIds) >= 2
       THEN /\ allProducts' =
                  StringOf(IF TruthyStr(userMessage) THEN userMessage ELSE <<>>)
            /\ pc' = "compare"
            /\ result' = result
       ELSE IF ~TruthyStr(userMessage)
       THEN /\ result' = ErrorResponse(400, msgRequired, NullStr)
            /\ pc' = "done"
            /\ allProducts' = allProducts
       ELSE /\ pc' = "turn"
            /\ result' = result
            /\ allProducts' = allProducts
    /\ UNCHANGED << cache, now, ticks, mode, apiKey, userMessage, productIds, uiVars,
                    intent, filters, keywords, subs, doneOrder, netCalls,
                    displayProducts, topProducts, aiResponse, gatewayLog >>

\* compareProducts: the selection, the validation message, or one callLLM
\* at temperature 0.5
CompareProductsCall ==
    /\ mode \in {"chat", "compare"}
    /\ pc = "compare"
    /\ LET plan == ComparePlan(productIds, allProducts) IN
       \/ /\ plan = "throw"
          /\ result' = Threw("TypeError")
          /\ gatewayLog' = gatewayLog
       \/ /\ plan = "validation"
          /\ result' = ReturnedMessage(msgSelectTwo)
          /\ gatewayLog' = gatewayLog
       \/ /\ plan = "call"
          /\ \E status \in CallStatuses :
                /\ LogCall("compare", FALSE, 5, status)
                /\ IF status = "ok"
                   THEN \E text \in ComparisonTexts :
                           result' = ReturnedMessage(text)
                   ELSE result' = Threw(GatewayError(apiKey, status))
    /\ pc' = IF mode = "chat" THEN "respond"
             ELSE IF result'.status = "returned" THEN "done" ELSE "failed"
    /\ UNCHANGED << cache, now, ticks, mode, apiKey, userMessage, productIds, uiVars,
                    intent, filters, searchVars, displayProducts, topProducts,
                    aiResponse >>

\* Variant: the catch block answers without the details member
PostRespond_NoDetails ==
    /\ mode = "chat"
    /\ pc = "respond"
    /\ result' = IF result.status = "returned"
                 THEN Response(200, result.message)
                 ELSE ErrorResponse(500, msgWentWrong, NullStr)
    /\ pc' = "done"
    /\ UNCHANGED << cache, now, ticks, mode, turnVars, searchVars >>

\* The POST handler's await of processMessage, as far as its first gateway
\* call, the callLLM of extractIntent: a failed call throws into the
\* handler's catch; after a successful one the turn goes on as a turn of
\* mode "complete" does and comes back with a message or an error
ProcessMessageCall ==
    /\ mode = "chat"
    /\ pc = "turn"
    /\ \E status \in CallStatuses :
          /\ LogCall("extract", FALSE, 0, status)
          /\ IF status = "ok"
             THEN \/ \E text \in ComparisonTexts :
                        result' = ReturnedMessage(text)
                  \/ \E later \in GatewayStatuses \ {"ok"} :
                        result' = Threw(GatewayError(apiKey, later))
             ELSE result' = Threw(GatewayError(apiKey, status))
    /\ pc' = "respond"
    /\ UNCHANGED << cache, now, ticks, mode, apiKey, userMessage, productIds, uiVars,
                    intent, filters, searchVars, allProducts, displayProducts,
                    topProducts, aiResponse >>

\* The POST handler after compareProducts or processMessage: the message
\* of the result, or the catch block's status 500 with the generic error
\* text and, as details, the message of the error caught
PostRespond ==
    /\ mode = "chat"
    /\ pc = "respond"
    /\ result' = IF result.status = "returned"
                 THEN Response(200, result.message)
                 ELSE ErrorResponse(500, msgWentWrong,
                                    ErrorMessage(result.error))
    /\ pc' = "done"
    /\ UNCHANGED << cache, now, ticks, mode, turnVars, searchVars >>

InitCompare ==
    /\ cache = EmptyCache
    /\ NoUi
    /\ now = 0
    /\ ticks = 0
    /\ apiKey \in BOOLEAN
    /\ intent = NoIntent
    /\ filters = NoFilters
    /\ keywords = <<>>
    /\ subs = <<>>
    /\ doneOrder = <<>>
    /\ netCalls = 0
    /\ displayProducts = <<>>
    /\ topProducts = <<>>
    /\ aiResponse = <<>>
    /\ gatewayLog = <<>>
    /\ result = NoResult
    /\ \/ /\ mode = "chat"
          /\ pc = "request"
          /\ userMessage \in {NullStr, <<>>, msgHi}
          /\ productIds \in IdLists
          /\ allProducts = <<>>
       \/ /\ mode = "compare"
          /\ pc = "compare"
          /\ userMessage \in {<<>>, msgHi}
          /\ productIds \in IdLists
          /\ allProducts \in { ArrayOf(s) : s \in CompareLists }

NextCompare ==
    \/ Post
    \/ CompareProductsCall
    \/ ProcessMessageCall
    \/ PostRespond

SpecCompare == InitCompare /\ [][NextCompare]_vars

\* ------------------------------------------------------------------------
\* components/ChatPanel.js with the products state of the page (mode
\* "panel"): sendMessage runs up to its await of fetch, the fetch and
\* response.json() settle, and sendMessage resumes; the Clear button and
\* the input field work in between
\* ------------------------------------------------------------------------

\* Sends of a run of the chat panel
MaxSends == 2

msgApology ==
    <<"I'm sorry, I had trouble processing that. Could you try rephrasing your question?">>

msgChip == <<"I'm looking for a birthday gift">>

UserMessage(content) ==
    [role |-> "user", content |-> content, products |-> NullValue]

\* An assistant message; the one of the catch block has no products member
AssistantMessage(content, products) ==
    [role |-> "assistant", content |-> content, products |-> products]

\* What the field may hold: nothing, a blank, a text
InputTexts == { <<>>, <<" ">>, msgHi }

\* The argument of sendMessage: none from the send button and the Enter
\* key, the chip's value from a chip
SendArguments == { NullStr, msgChip }

\* Bodies of an ok response of /api/chat
ChatReplies ==
    { [status |-> "ok", message |-> m, products |-> ps] :
        m \in { <<"a">>, <<"b">> },
        ps \in { <<>>,
                 <<formatProductForDisplay(p10)>>,
                 <<formatProductForDisplay(p20),
                   formatProductForDisplay(p10)>> } }

\* A fetch that rejected, a response that is not ok, a body response.json()
\* rejects
ChatFailures ==
    { [status |-> f, message |-> <<>>, products |-> <<>>] :
        f \in {"network_error", "http_error", "bad_json"} }

\* onChange of the input field, which is disabled while loading
setInputValue ==
    /\ mode = "panel"
    /\ ~isLoading
    /\ \E v \in InputTexts :
          /\ v # inputValue
          /\ inputValue' = v
    /\ UNCHANGED << cache, now, ticks, mode, pc, apiKey, userMessage,
                    productIds, intent, filters, searchVars, displayProducts,
                    topProducts, aiResponse, gatewayLog, result, messages,
                    isLoading, showChips, chatFetch, sendCount, pageProducts,
                    compareIds, isComparing, compareResult >>

\* sendMessage up to `await fetch`. A chip is rendered while showChips
\* holds and the transcript is empty
sendMessage ==
    /\ mode = "panel"
    /\ sendCount < MaxSends
    /\ \E text \in SendArguments :
          /\ text # NullStr => (showChips /\ messages = <<>>)
          /\ LET content == IF TruthyStr(text) THEN text
                            ELSE Trim(inputValue)
             IN  /\ ~(~TruthyStr(content) \/ isLoading)
                 /\ messages' = Append(messages, UserMessage(content))
    /\ inputValue' = <<>>
    /\ showChips' = FALSE
    /\ isLoading' = TRUE
    /\ chatFetch' = [status |-> "pending", message |-> <<>>,
                     products |-> <<>>]
    /\ sendCount' = sendCount + 1
    /\ UNCHANGED << cache, now, ticks, mode, pc, apiKey, userMessage,
                    productIds, intent, filters, searchVars, displayProducts,
                    topProducts, aiResponse, gatewayLog, result,
                    pageProducts, compareIds, isComparing, compareResult >>

\* The awaits of sendMessage settle: fetch and response.json() give the
\* body of an ok response, or one of them fails
FetchSettles ==
    /\ mode = "panel"
    /\ chatFetch.status = "pending"
    /\ chatFetch' \in ChatReplies \cup ChatFailures
    /\ UNCHANGED << cache, now, ticks, mode, pc, apiKey, userMessage,
                    productIds, intent, filters, searchVars, displayProducts,
                    topProducts, aiResponse, gatewayLog, result, messages,
                    inputValue, isLoading, showChips, sendCount, pageProducts,
                    compareIds, isComparing, compareResult >>

\* Variant: the catch block only logs
sendMessageResumes_SilentCatch ==
    /\ mode = "panel"
    /\ chatFetch.status \notin {"none", "pending"}
    /\ IF chatFetch.status = "ok"
       THEN /\ messages' = Append(messages,
                                  AssistantMessage(chatFetch.message,
                                                   ArrayOf(chatFetch.products)))
            /\ pageProducts' = IF Len(chatFetch.products) > 0
                               THEN chatFetch.products
                               ELSE pageProducts
       ELSE /\ messages' = messages
            /\ pageProducts' = pageProducts
    /\ isLoading' = FALSE
    /\ chatFetch' = NoFetch
    /\ UNCHANGED << cache, now, ticks, mode, pc, apiKey, userMessage,
                    productIds, intent, filters, searchVars, displayProducts,
                    topProducts, aiResponse, gatewayLog, result, inputValue,
                    showChips, sendCount, compareIds, isComparing,
                    compareResult >>

\* sendMessage after its awaits: the assistant message of the response and
\* onProductsUpdate for a non-empty product list, or the catch block's
\* apology; then the finally block
sendMessageResumes ==
    /\ mode = "panel"
    /\ chatFetch.status \notin {"none", "pending"}
    /\ IF chatFetch.status = "ok"
       THEN /\ messages' = Append(messages,
                                  AssistantMessage(chatFetch.message,
                                                   ArrayOf(chatFetch.products)))
            /\ pageProducts' = IF Len(chatFetch.products) > 0
                               THEN chatFetch.products
                               ELSE pageProducts
       ELSE /\ messages' = Append(messages,
                                  AssistantMessage(msgApology, NullValue))
            /\ pageProducts' = pageProducts
    /\ isLoading' = FALSE
    /\ chatFetch' = NoFetch
    /\ UNCHANGED << cache, now, ticks, mode, pc, apiKey, userMessage,
                    productIds, intent, filters, searchVars, displayProducts,
                    topProducts, aiResponse, gatewayLog, result, inputValue,
                    showChips, sendCount, compareIds, isComparing,
                    compareResult >>

\* The Clear button, rendered while the transcript is not empty
handleClear ==
    /\ mode = "panel"
    /\ Len(messages) > 0
    /\ messages' = <<>>
    /\ inputValue' = <<>>
    /\ showChips' = TRUE
    /\ pageProducts' = <<>>
    /\ UNCHANGED << cache, now, ticks, mode, pc, apiKey, userMessage,
                    productIds, intent, filters, searchVars, displayProducts,
                    topProducts, aiResponse, gatewayLog, result, isLoading,
                    chatFetch, sendCount, compareIds, isComparing,
                    compareResult >>

\* The pipeline's variables at rest
NoInvocation ==
    /\ cache = EmptyCache
    /\ now = 0
    /\ ticks = 0
    /\ pc = "idle"
    /\ apiKey = TRUE
    /\ userMessage = <<>>
    /\ productIds = <<>>
    /\ intent = NoIntent
    /\ filters = NoFilters
    /\ keywords = <<>>
    /\ subs = <<>>
    /\ doneOrder = <<>>
    /\ netCalls = 0
    /\ allProducts = <<>>
    /\ displayProducts = <<>>
    /\ topProducts = <<>>
    /\ aiResponse = <<>>
    /\ gatewayLog = <<>>
    /\ result = NoResult

InitChat ==
    /\ mode = "panel"
    /\ NoInvocation
    /\ NoUi

NextChat ==
    \/ setInputValue
    \/ sendMessage
    \/ FetchSettles
    \/ sendMessageResumes
    \/ handleClear

SpecChat == InitChat /\ [][NextChat]_vars

\* The browser settles every fetch, with a response or a failure, and runs
\* the continuation of a settled await
SpecChatFair ==
    InitChat /\ [][NextChat]_vars
        /\ WF_vars(FetchSettles) /\ WF_vars(sendMessageResumes)

\* ------------------------------------------------------------------------
\* components/ProductGrid.js (mode "grid"): the comparison selection and
\* modal over the products prop, which the page sets
\* ------------------------------------------------------------------------

MAX_COMPARE == 3

\* Product lists the page hands to the grid
GridLists == { MapSeq(formatProductForDisplay, s) : s \in CompareLists }

\* setProducts of the page: the products prop of the grid changes
setProducts ==
    /\ mode = "grid"
    /\ \E newProducts \in GridLists :
          /\ newProducts # pageProducts
          /\ pageProducts' = newProducts
    /\ UNCHANGED << cache, now, ticks, mode, pc, apiKey, userMessage,
                    productIds, intent, filters, searchVars, displayProducts,
                    topProducts, aiResponse, gatewayLog, result, messages,
                    inputValue, isLoading, showChips, chatFetch, sendCount,
                    compareIds, isComparing, compareResult >>

\* The compare toggle of the card of a displayed product
toggleCompare ==
    /\ mode = "grid"
    /\ \E i \in 1..Len(pageProducts) :
          LET productId == pageProducts[i].id IN
          /\ compareIds' =
                IF productId \in compareIds
                THEN compareIds \ {productId}
                ELSE IF Cardinality(compareIds) < MAX_COMPARE
                THEN compareIds \cup {productId}
                ELSE compareIds
          /\ compareIds' # compareIds
    /\ UNCHANGED << cache, now, ticks, mode, pc, apiKey, userMessage,
                    productIds, intent, filters, searchVars, displayProducts,
                    topProducts, aiResponse, gatewayLog, result, messages,
                    inputValue, isLoading, showChips, chatFetch, sendCount,
                    pageProducts, isComparing, compareResult >>

\* The Compare button, rendered while compareIds.size >= 2 and the modal is
\* closed
handleCompare ==
    /\ mode = "grid"
    /\ Cardinality(compareIds) >= 2 /\ ~isComparing
    /\ ~(Cardinality(compareIds) < 2)
    /\ LET Selected(p) == p.id \in compareIds
           selectedProducts == FilterSeq(Selected, pageProducts)
       IN  compareResult' = ArrayOf(selectedProducts)
    /\ isComparing' = TRUE
    /\ UNCHANGED << cache, now, ticks, mode, pc, apiKey, userMessage,
                    productIds, intent, filters, searchVars, displayProducts,
                    topProducts, aiResponse, gatewayLog, result, messages,
                    inputValue, isLoading, showChips, chatFetch, sendCount,
                    pageProducts, compareIds >>

\* The close button of the modal
closeCompare ==
    /\ mode = "grid"
    /\ isComparing
    /\ isComparing' = FALSE
    /\ compareResult' = NullValue
    /\ compareIds' = {}
    /\ UNCHANGED << cache, now, ticks, mode, pc, apiKey, userMessage,
                    productIds, intent, filters, searchVars, displayProducts,
                    topProducts, aiResponse, gatewayLog, result, messages,
                    inputValue, isLoading, showChips, chatFetch, sendCount,
                    pageProducts >>

InitGrid ==
    /\ mode = "grid"
    /\ NoInvocation
    /\ NoUi

NextGrid ==
    \/ setProducts
    \/ toggleCompare
    \/ handleCompare
    \/ closeCompare

SpecGrid == InitGrid /\ [][NextGrid]_vars

\* ------------------------------------------------------------------------
\* Properties
\* ------------------------------------------------------------------------

InTurn == mode \in {"complete", "stream"}

\* multiSearch has been invoked by this turn: searchFromIntent always hands
\* it a non-empty keyword list
SearchInvoked == keywords # <<>> \/ subs # <<>> \/ netCalls > 0

IsTagToken(tok) == tok.kind = "tag"

HasTag(text) == \E i \in 1..Len(text) : IsTagToken(text[i])

Ids(products) == [i \in 1..Len(products) |-> products[i].id]

\* C1: in processMessage and processMessageStream, when the extracted intent
\* has needs_clarification true, the turn never invokes the catalog search
\* (no multiSearch, no request to the catalog, never in the search or
\* generation step) and the products it returns are empty.
C1_ClarificationNeverSearches ==
    (InTurn /\ intent.type = "object" /\ intent.needs_clarification)
        => /\ ~SearchInvoked
           /\ pc \notin {"searching", "generate"}
           /\ DOMAIN cache = {}
           /\ result.status = "returned" => result.products = <<>>

C1_Witness ==
    /\ InTurn
    /\ pc = "done"
    /\ intent.type = "object"
    /\ intent.needs_clarification
    /\ result.status = "returned"
    /\ Len(gatewayLog) = 2

\* C2: the products returned by processMessage are at most 8, whatever tags
\* the generated text contains.
C2_AtMostEightProducts ==
    (mode = "complete" /\ result.status = "returned")
        => Len(result.products) <= DISPLAY_LIMIT

\* C3: whatever text the model returns for intent extraction, processMessage
\* never fails because of it: a turn that throws has a gateway call that
\* failed or could not be sent.
C3_ExtractionOutputNeverFailsTurn ==
    (mode = "complete" /\ result.status = "threw")
        => \E i \in 1..Len(gatewayLog) : gatewayLog[i].status # "ok"

\* C4: a gateway call of processMessage that fails (non-success status or
\* transport failure) is the last call of the turn and the only one made for
\* its step, the turn fails with that call's error, and no later step has
\* run: no search after a failed extraction or clarification, no
\* reconciliation after a failed generation.
C4_GatewayFailurePropagates ==
    mode = "complete" =>
        \A i \in 1..Len(gatewayLog) :
            LET call == gatewayLog[i] IN
            call.status \in {"http_error", "transport_error"} =>
                /\ i = Len(gatewayLog)
                /\ pc = "failed"
                /\ result.status = "threw"
                /\ result.error =
                      (IF call.status = "http_error"
                       THEN "ExternalServiceError:status"
                       ELSE "ExternalServiceError:transport")
                /\ Cardinality({ j \in 1..Len(gatewayLog) :
                                   gatewayLog[j].purpose = call.purpose }) = 1
                /\ call.purpose = "extract"
                      => intent = NoIntent /\ ~SearchInvoked
                /\ call.purpose = "clarify" => ~SearchInvoked
                /\ call.purpose = "generate"
                      => aiResponse = <<>> /\ result.products = <<>>

C4_Witness ==
    /\ mode = "complete"
    /\ pc = "failed"
    /\ Len(gatewayLog) = 2
    /\ gatewayLog[2].purpose = "generate"
    /\ gatewayLog[2].status = "http_error"
    /\ netCalls > 0
    /\ displayProducts # <<>>

\* C11: searchProducts never propagates an error: a sub-search whose request
\* got a non-success response or failed in transport has resolved with the
\* empty sequence and the turn goes on (it is still in its search step with
\* nothing thrown); a turn that threw did so on a gateway call or on a null
\* intent, never on the catalog.
C11_CatalogFailureAbsorbed ==
    InTurn =>
        /\ \A i \in 1..Len(subs) :
              subs[i].how \in {"http_error", "transport_error"}
                  => /\ subs[i].state = "resolved"
                     /\ subs[i].data = <<>>
                     /\ pc = "searching"
                     /\ result = NoResult
        /\ result.status = "threw"
              => \/ intent.type = "null"
                 \/ /\ gatewayLog # <<>>
                    /\ gatewayLog[Len(gatewayLog)].status # "ok"

C11_Witness ==
    /\ mode = "complete"
    /\ pc = "done"
    /\ keywords = <<kwGetWell>>
    /\ netCalls = 1
    /\ allProducts = <<>>
    /\ result.status = "returned"
    /\ result.products = <<>>

\* The digit strings of the tags of a text, in order, duplicates included
RECURSIVE TagDigits(_)
TagDigits(text) ==
    IF text = <<>> THEN <<>>
    ELSE (IF IsTagToken(Head(text)) THEN <<Head(text).digits>> ELSE <<>>)
         \o TagDigits(Tail(text))

\* A sequence with every element after its first occurrence removed, where
\* two elements are the same when Key gives them the same value
RECURSIVE FirstOccurrences(_, _)
FirstOccurrences(Key(_), s) ==
    IF s = <<>> THEN <<>>
    ELSE LET n    == Len(s)
             init == SubSeq(s, 1, n - 1)
         IN  FirstOccurrences(Key, init)
             \o (IF \E j \in 1..(n - 1) : Key(s[j]) = Key(s[n])
                 THEN <<>> ELSE <<s[n]>>)

Self(x) == x

IdOf(product) == product.id

\* The sequences of a sequence of sequences, one after the other
RECURSIVE Flatten(_)
Flatten(ss) == IF ss = <<>> THEN <<>> ELSE Head(ss) \o Flatten(Tail(ss))

\* The product with the given id string in a list that has one
ProductWithId(products, idStr) ==
    products[CHOOSE i \in 1..Len(products) : Digits(products[i].id) = idStr]

HasId(products, idStr) ==
    \E i \in 1..Len(products) : Digits(products[i].id) = idStr

\* The reconciled list as section 4.4 step 6 of the specification states it
ReconciledAsSpecified(text, display, top) ==
    LET mentioned == FirstOccurrences(Self, TagDigits(text))
        Known(d)  == HasId(display, d) \/ HasId(top, d)
        found     == SelectSeq(mentioned, Known)
        first     == [i \in 1..Len(found) |->
                        IF HasId(display, found[i])
                        THEN ProductWithId(display, found[i])
                        ELSE ProductWithId(top, found[i])]
        Unmentioned(p) == Digits(p.id) \notin Range(mentioned)
        leftover  == SelectSeq(display, Unmentioned)
    IN  first \o Slice(leftover, Max2(0, DISPLAY_LIMIT - Len(first)))

ExampleText == << Tag(<<2, 0>>), Tag(<<5, 5>>), Tag(<<2, 0>>) >>

\* C5: when the generated text has at least one tag, the reconciled list is
\* the mentioned products in order of first mention (from the nominal top-8
\* if there, else from the top-10), followed by the unmentioned nominal
\* products in their prior order up to 8 in total; for the tags 20, 55, 20
\* over the nominal 10..80 with 55 in the top-10 it is 20,55,10,30,40,50,60,70.
C5_ReconciledOrder ==
    (mode = "reorder" /\ pc = "done" /\ HasTag(aiResponse))
        => /\ result.products =
                 ReconciledAsSpecified(aiResponse, displayProducts, topProducts)
           /\ ( /\ aiResponse = ExampleText
                /\ Ids(displayProducts) = <<10, 20, 30, 40, 50, 60, 70, 80>>
                /\ HasId(topProducts, <<5, 5>>) )
                 => Ids(result.products) = <<20, 55, 10, 30, 40, 50, 60, 70>>

C5_Witness ==
    /\ mode = "reorder"
    /\ pc = "done"
    /\ aiResponse = ExampleText
    /\ Ids(displayProducts) = <<10, 20, 30, 40, 50, 60, 70, 80>>
    /\ Ids(result.products) = <<20, 55, 10, 30, 40, 50, 60, 70>>

\* C6: every element of the reconciled list is a product of the nominal
\* top-8 or of the top-10 set, and a tag whose id is in neither set adds no
\* element: the list is as long as the number of known mentions plus the
\* unmentioned nominal products that fit.
C6_NoPlaceholder ==
    (mode = "reorder" /\ pc = "done")
        => /\ \A i \in 1..Len(result.products) :
                 result.products[i]
                     \in Range(displayProducts) \cup Range(topProducts)
           /\ \A d \in Range(TagDigits(aiResponse)) :
                 (~HasId(displayProducts, d) /\ ~HasId(topProducts, d))
                     => ~HasId(result.products, d)
           /\ Len(result.products)
                 <= Cardinality(Range(displayProducts) \cup Range(topProducts))

C6_Witness ==
    /\ mode = "reorder"
    /\ pc = "done"
    /\ aiResponse = << Tag(<<9, 9>>), Tag(<<2, 0>>) >>
    /\ Len(displayProducts) = DISPLAY_LIMIT
    /\ Ids(result.products) = <<20, 10, 30, 40, 50, 60, 70, 80>>

\* C7: when the generated text has no tag, reconciliation returns the
\* nominal top-8 display list unchanged.
C7_NoTagKeepsDisplay ==
    (mode = "reorder" /\ pc = "done" /\ ~HasTag(aiResponse))
        => result.products = displayProducts

C7_Witness ==
    /\ mode = "reorder"
    /\ pc = "done"
    /\ aiResponse = <<Word, Word>>
    /\ Len(displayProducts) = DISPLAY_LIMIT
    /\ Len(topProducts) = LLM_LIMIT
    /\ result.products = displayProducts

\* C8: every tag of the generated text that names a product of the
\* LLM-visible top-10 set has that product among the products processMessage
\* returns.
C8_MentionedAreDisplayed ==
    (mode = "complete" /\ pc = "done" /\ SearchInvoked)
        => \A i \in 1..Len(aiResponse) :
              \A j \in 1..Len(topProducts) :
                 ( /\ IsTagToken(aiResponse[i])
                   /\ aiResponse[i].digits = Digits(topProducts[j].id) )
                     => topProducts[j] \in Range(result.products)

C8_Witness ==
    /\ mode = "complete"
    /\ pc = "done"
    /\ aiResponse = << Tag(<<5, 5>>) >>
    /\ ~HasId(displayProducts, <<5, 5>>)
    /\ HasId(topProducts, <<5, 5>>)
    /\ HasId(result.products, <<5, 5>>)

\* The result set each sub-search handed to the merge, in keyword order
ResultSets == [i \in 1..Len(subs) |-> subs[i].data]

\* C9: for a non-empty keyword list the output of multiSearch has no two
\* products with the same id and is the concatenation of the per-keyword
\* result sets, in keyword order, with every product after its first
\* occurrence removed.
C9_MergedFirstSeen ==
    (mode = "search" /\ pc = "returned" /\ keywords # <<>>)
        => /\ IsInjective(Ids(allProducts))
           /\ allProducts = FirstOccurrences(IdOf, Flatten(ResultSets))

C9_Witness ==
    /\ mode = "search"
    /\ pc = "returned"
    /\ Len(keywords) = 2
    /\ subs[1].data # <<>>
    /\ subs[2].data # <<>>
    /\ Range(Ids(subs[1].data)) \cap Range(Ids(subs[2].data)) # {}
    /\ ~IsInjective(Ids(subs[1].data))
    /\ Len(allProducts) < Len(subs[1].data) + Len(subs[2].data)

\* What the catalog answered to the i-th sub-search, a failure counting as
\* the empty set
Contribution(i) ==
    IF subs[i].how \in {"http_error", "transport_error", "blank"}
    THEN <<>>
    ELSE subs[i].data

\* C10: multiSearch has started every sub-search before it waits (while it
\* waits there is one sub-search per keyword and every request has been
\* sent), it merges only when every sub-search has completed, and the merged
\* output is determined by the answers in keyword order alone, a failed
\* sub-search counting as the empty set, whatever the order of completion.
C10_FanOutFanIn ==
    mode = "search" =>
        /\ pc = "searching"
              => /\ Len(subs) = Len(keywords)
                 /\ \A i \in 1..Len(subs) : subs[i].keyword = keywords[i]
                 /\ netCalls = Cardinality({ i \in 1..Len(subs) :
                                               subs[i].how \notin
                                                   {"blank", "cache"} })
        /\ (pc = "returned" /\ keywords # <<>>)
              => /\ AllResolved
                 /\ Len(doneOrder) = Len(subs)
                 /\ Range(doneOrder) = 1..Len(subs)
                 /\ \A i \in 1..Len(subs) :
                       subs[i].how \in {"http_error", "transport_error"}
                           => subs[i].data = <<>>
                 /\ allProducts =
                       FirstOccurrences(IdOf,
                           Flatten([i \in 1..Len(subs) |-> Contribution(i)]))

C10_Witness ==
    /\ mode = "search"
    /\ pc = "returned"
    /\ Len(keywords) = 2
    /\ doneOrder = <<2, 1>>
    /\ subs[1].how = "ok"
    /\ subs[1].data # <<>>
    /\ subs[2].how = "transport_error"
    /\ allProducts = subs[1].data

\* The form of a keyword the cache is keyed by, as the specification gives
\* it: lower-cased and trimmed
NormalForm(keyword) == Trim(ToLowerCase(keyword))

\* The freshness window of the specification, in milliseconds
FiveMinutes == 5 * 60 * 1000

\* C12: a call of searchProducts that returns from the cache found there an
\* entry for its keyword that was stored less than 5 minutes before, and
\* returns that entry's data; a call that finds an entry of 5 minutes or
\* more removes it and sends a request.
C12_NeverServedPastWindow ==
    [][ (mode = "client" /\ Len(subs') = Len(subs) + 1) =>
          LET call == subs'[Len(subs')]
              key  == NormalForm(call.keyword)
          IN  /\ call.how = "cache"
                    => /\ key \in DOMAIN cache
                       /\ now - cache[key].timestamp < FiveMinutes
                       /\ call.data = cache[key].data
              /\ ( /\ key \in DOMAIN cache
                   /\ now - cache[key].timestamp >= FiveMinutes )
                    => /\ key \notin DOMAIN cache'
                       /\ call.state = "pending"
                       /\ netCalls' = netCalls + 1 ]_vars

\* The first call succeeded before the clock reached 5 minutes, the second
\* found its entry expired: the entry is gone and a second request is out
C12_Witness ==
    /\ mode = "client"
    /\ Len(subs) = 2
    /\ subs[1].how = "ok"
    /\ subs[2].key = subs[1].key
    /\ subs[2].state = "pending"
    /\ doneOrder = <<1>>
    /\ now = FiveMinutes
    /\ subs[1].key \notin DOMAIN cache
    /\ netCalls = 2

\* C13: a successful search stores its result under the lower-cased, trimmed
\* keyword with the time of storing; a stored result stays until it is 5
\* minutes old; and a call whose keyword has that form up to case and
\* surrounding whitespace, made while the result is less than 5 minutes old,
\* returns it without a request and leaves the cache as it is.
C13_FreshEntryServed ==
    [][ mode = "client" =>
          /\ \A i \in 1..Len(subs) :
                ( /\ subs[i].state = "pending"
                  /\ subs'[i].state = "resolved"
                  /\ subs'[i].how = "ok" )
                    => LET key == NormalForm(subs[i].keyword) IN
                       /\ key \in DOMAIN cache'
                       /\ cache'[key] =
                             [data |-> subs'[i].data, timestamp |-> now]
          /\ \A key \in DOMAIN cache :
                key \notin DOMAIN cache'
                    => now - cache[key].timestamp >= FiveMinutes
          /\ Len(subs') = Len(subs) + 1 =>
                LET call == subs'[Len(subs')]
                    key  == NormalForm(call.keyword)
                IN  ( /\ key \in DOMAIN cache
                      /\ now - cache[key].timestamp < FiveMinutes )
                        => /\ call.state = "resolved"
                           /\ call.how = "cache"
                           /\ call.data = cache[key].data
                           /\ netCalls' = netCalls
                           /\ cache' = cache ]_vars

\* "Bday " was fetched and stored; one millisecond before the window ends
\* "bday" is served from the cache
C13_Witness ==
    /\ mode = "client"
    /\ Len(subs) = 2
    /\ subs[1].keyword = kwBirthdayRaw
    /\ subs[1].how = "ok"
    /\ subs[2].keyword = kwBirthday
    /\ subs[2].how = "cache"
    /\ subs[2].data = subs[1].data
    /\ subs[2].data # <<>>
    /\ cache[kwBirthday].timestamp = 0
    /\ now = FiveMinutes - 1
    /\ netCalls = 1

\* C14: whatever the interleaving of the calls, every entry of the cache
\* holds one of the complete answers of the catalog for the entry's own key
\* and a time that is not in the future; an entry appears or changes only
\* when a request for that key succeeds, and it then holds exactly that
\* request's result and the time of storing.
C14_CacheEntriesIntact ==
    [][ mode = "client" =>
          \A key \in DOMAIN cache' :
             /\ cache'[key].data \in CatalogResponses(key)
             /\ cache'[key].timestamp <= now'
             /\ (key \notin DOMAIN cache \/ cache'[key] # cache[key])
                   => \E i \in 1..Len(subs) :
                         /\ subs[i].state = "pending"
                         /\ subs'[i].state = "resolved"
                         /\ subs'[i].how = "ok"
                         /\ NormalForm(subs[i].keyword) = key
                         /\ cache'[key] =
                               [data |-> subs'[i].data, timestamp |-> now]
      ]_vars

\* Two overlapping calls for the same key with different answers, completing
\* in the reverse order of their start: the entry is the answer stored last
C14_Witness ==
    /\ mode = "client"
    /\ Len(subs) = 2
    /\ subs[1].key = kwGetWell
    /\ subs[2].key = kwGetWell
    /\ subs[1].how = "ok"
    /\ subs[2].how = "ok"
    /\ netCalls = 2
    /\ doneOrder = <<2, 1>>
    /\ subs[1].data # subs[2].data
    /\ cache[kwGetWell] = [data |-> subs[1].data, timestamp |-> now]
    /\ now = FiveMinutes

\* A keyword that is empty or consists of whitespace only
Blank(keyword) == \A i \in 1..Len(keyword) : keyword[i] = " "

\* C15: a call of multiSearch with the empty list returns the empty sequence
\* at once, with no sub-search, no request and the cache as it was; in any
\* call of multiSearch a sub-search for an empty or whitespace-only keyword
\* has resolved with the empty sequence when the call reaches its await,
\* sends no request (there are at most as many requests as other keywords)
\* and touches no entry of the cache (an entry that goes is that of another
\* keyword of the list, and none is added); a list of such keywords only
\* leaves the cache unchanged and yields the empty sequence.
C15_BlankInputsDoNothing ==
    [][ /\ (mode = "search" /\ pc = "idle" /\ pc' # "idle") =>
             /\ keywords' = <<>>
                   => /\ pc' = "returned"
                      /\ allProducts' = <<>>
                      /\ subs' = <<>>
                      /\ netCalls' = 0
                      /\ cache' = cache
             /\ \A i \in 1..Len(keywords') :
                   Blank(keywords'[i])
                       => /\ subs'[i].state = "resolved"
                          /\ subs'[i].how = "blank"
                          /\ subs'[i].data = <<>>
             /\ netCalls' <= Cardinality({ i \in 1..Len(keywords') :
                                              ~Blank(keywords'[i]) })
             /\ DOMAIN cache' \subseteq DOMAIN cache
             /\ \A key \in DOMAIN cache :
                   (key \notin DOMAIN cache' \/ cache'[key] # cache[key])
                       => \E i \in 1..Len(keywords') :
                             /\ ~Blank(keywords'[i])
                             /\ NormalForm(keywords'[i]) = key
        /\ ( /\ mode = "search" /\ pc = "searching" /\ pc' = "returned"
             /\ \A i \in 1..Len(keywords) : Blank(keywords[i]) )
               => /\ allProducts' = <<>>
                  /\ netCalls' = 0
                  /\ cache' = cache ]_vars

\* multiSearch has returned for a whitespace-only and an empty keyword,
\* with entries in the cache from earlier calls
C15_Witness ==
    /\ mode = "search"
    /\ pc = "returned"
    /\ keywords = <<kwBlank, kwEmpty>>
    /\ subs[1].how = "blank"
    /\ subs[2].how = "blank"
    /\ allProducts = <<>>
    /\ netCalls = 0
    /\ DOMAIN cache # {}

\* A text field that may be null, as a text
TextOf(s) == IF s = NullStr THEN <<>> ELSE s

\* The occasion text of the product contains the occasion, whatever the
\* letter case of either
CarriesOccasion(p, occasion) ==
    Includes(ToLowerCase(TextOf(p.occasion)), ToLowerCase(occasion))

FilterDone == mode = "filter" /\ pc = "done"

\* C16: filterProducts applied with the same filters to its own output gives
\* that output again, for every product list and every filters object.
C16_FilterIdempotent ==
    FilterDone => filterProducts(result.products, filters) = result.products

\* The occasion matches no product, so the fallback fires, and the filters
\* after it remove a product each
C16_Witness ==
    /\ FilterDone
    /\ filters.minBudget = 30
    /\ filters.occasion = kwMom
    /\ filters.excludeIngredients = <<strEgg>>
    /\ filters.urgentDelivery
    /\ allProducts = <<p60, p30, p70>>
    /\ result.products = <<p30>>

\* C17: with an occasion filter, the list after the occasion step is the
\* sub-list of the budget-filtered list whose products carry the occasion
\* when there is one, and the whole budget-filtered list when there is none;
\* so it is empty only when the budget-filtered list is.  Without dietary and
\* urgency filters it is what filterProducts returns.
C17_OccasionNeverEmpties ==
    (FilterDone /\ filters.occasion \notin {NullStr, <<>>}) =>
        LET budgeted   == BudgetFiltered(allProducts, filters)
            after      == OccasionFiltered(budgeted, filters)
            Carries(p) == CarriesOccasion(p, filters.occasion)
            matching   == SelectSeq(budgeted, Carries)
        IN  /\ budgeted # <<>> => after # <<>>
            /\ after = IF matching # <<>> THEN matching ELSE budgeted
            /\ (filters.excludeIngredients = <<>> /\ ~filters.urgentDelivery)
                  => result.products = after

\* The budget removes one product, none of the others carries the
\* occasion, and the budget-filtered list is returned
C17_Witness ==
    /\ FilterDone
    /\ filters.minBudget = Null
    /\ filters.maxBudget = 50
    /\ filters.occasion = kwMom
    /\ filters.excludeIngredients = <<>>
    /\ ~filters.urgentDelivery
    /\ allProducts = <<p50, p10, p30>>
    /\ result.products = <<p10, p30>>

\* C18: every product filterProducts returns is one of its input, has a
\* price within each budget bound that is set, has no excluded term in its
\* ingredient text (whatever the letter case) and has one-hour delivery when
\* urgent delivery is set, also when the occasion matched no product.
C18_OutputPassesHardFilters ==
    FilterDone =>
        \A i \in 1..Len(result.products) :
            LET p == result.products[i] IN
            /\ p \in Range(allProducts)
            /\ filters.minBudget # Null
                  => p.minPrice # Null /\ p.minPrice >= filters.minBudget
            /\ filters.maxBudget # Null
                  => p.minPrice # Null /\ p.minPrice <= filters.maxBudget
            /\ \A j \in 1..Len(filters.excludeIngredients) :
                  ~Includes(ToLowerCase(TextOf(p.ingrediantNames)),
                            ToLowerCase(filters.excludeIngredients[j]))
            /\ filters.urgentDelivery => p.isOneHourDelivery

\* The fallback fires over a list with a product without a price, one with
\* an excluded ingredient and one without one-hour delivery
C18_Witness ==
    /\ FilterDone
    /\ filters.minBudget = 0
    /\ filters.maxBudget = 50
    /\ filters.occasion = kwMom
    /\ filters.excludeIngredients = <<ingFruit, strEgg>>
    /\ filters.urgentDelivery = FALSE
    /\ allProducts = <<p50, p60, p70>>
    /\ result.products = <<p70>>

\* C20: with both budget bounds set and minBudget above maxBudget,
\* filterProducts returns the empty sequence, whatever the list and the
\* other filters.
C20_CrossedBoundsGiveNothing ==
    ( /\ FilterDone
      /\ filters.minBudget # Null
      /\ filters.maxBudget # Null
      /\ filters.minBudget > filters.maxBudget )
        => result.products = <<>>

\* Crossed bounds each of which some product meets, with an occasion that
\* matches none
C20_Witness ==
    /\ FilterDone
    /\ filters.minBudget = 30
    /\ filters.maxBudget = 0
    /\ filters.occasion = kwMom
    /\ allProducts = <<p30, p70, p60>>
    /\ result.products = <<>>

\* C19: when the intent of a turn carries a budget_max, every product the
\* turn returns has a price and it is at most budget_max; when it carries a
\* budget_min, every returned product has a price and it is at least
\* budget_min.
C19_ReturnedWithinBudget ==
    (InTurn /\ intent.type = "object" /\ result.status = "returned")
        => \A i \in 1..Len(result.products) :
              LET p == result.products[i] IN
              /\ intent.budget_max # Null
                    => p.minPrice # Null /\ p.minPrice <= intent.budget_max
              /\ intent.budget_min # Null
                    => p.minPrice # Null /\ p.minPrice >= intent.budget_min

\* C21: when minBudget or maxBudget is given, a bound of 0 included, no
\* product without a minPrice is in the output of filterProducts.
C21_UnpricedExcludedUnderBudget ==
    (FilterDone /\ (filters.minBudget # Null \/ filters.maxBudget # Null))
        => \A i \in 1..Len(result.products) :
              result.products[i].minPrice # Null

\* A lower bound of 0 alone over an unpriced product and one priced 0: only
\* the priced one is returned
C21_Witness ==
    /\ FilterDone
    /\ filters.minBudget = 0
    /\ filters.maxBudget = Null
    /\ filters.occasion = NullStr
    /\ filters.excludeIngredients = <<>>
    /\ ~filters.urgentDelivery
    /\ allProducts = <<p50, p70>>
    /\ result.products = <<p70>>

\* "Top Seller" is in the promotional tag of the product
IsTopSeller(p) ==
    p.productImageTag # NullStr /\ Includes(p.productImageTag, TopSellerTag)

\* The relevance score of the product, 0 when it has none
RelevanceScore(p) == IF p.score = Null THEN 0 ELSE p.score

\* The products of a list that rank equal to p, in the order of the list
TiedWith(s, p) ==
    LET Tied(q) == /\ IsTopSeller(q) = IsTopSeller(p)
                   /\ RelevanceScore(q) = RelevanceScore(p)
    IN  SelectSeq(s, Tied)

Occurrences(s, p) == Cardinality({ i \in 1..Len(s) : s[i] = p })

RankDone == mode = "rank" /\ pc = "done"

Unparseable(reply) == reply.form \notin {"json", "fenced"}

\* The message up to its third space, the whole message when it has fewer:
\* its first three space-separated words
FirstThreeWords(message) ==
    LET spaces == { i \in 1..Len(message) : message[i] = " " }
    IN  IF Cardinality(spaces) < 3 THEN message
        ELSE LET third == CHOOSE i \in spaces :
                              Cardinality({ j \in spaces : j < i }) = 2
             IN  SubSeq(message, 1, third - 1)

\* C23: when the text returned for extraction does not parse as JSON, code
\* fence stripped, extractIntent returns an intent with needs_clarification
\* false, intent_type "browse" and exactly one keyword, the first three
\* words of the message; the turn does not fail there and goes to the
\* search, with no clarification call.
C23_UnparseableGivesFallback ==
    (pc # "parse" /\ Unparseable(aiResponse)) =>
        /\ intent.type = "object"
        /\ ~intent.needs_clarification
        /\ intent.intent_type = "browse"
        /\ intent.search_keywords = << FirstThreeWords(userMessage) >>
        /\ pc \in {"branch", "searching"}
        /\ result = NoResult
        /\ Len(gatewayLog) = 1

\* Prose in a code fence for a message of five words: the turn is searching
\* for the first three
C23_Witness ==
    /\ pc = "searching"
    /\ aiResponse.form = "fenced_prose"
    /\ userMessage = msgGift
    /\ productIds = <<>>
    /\ keywords = << <<"a"," ","g","i","f","t"," ","f","o","r">> >>
    /\ Len(subs) = 1

\* C24: the keyword list a turn hands to multiSearch has 1 to 3 entries and
\* the turn makes at most 3 catalog requests; an intent with no explicit
\* keyword and no occasion gives the list "popular gifts", "best sellers".
C24_OneToThreeKeywords ==
    (InTurn /\ SearchInvoked) =>
        /\ Len(keywords) \in 1..3
        /\ netCalls <= 3
        /\ (KeywordsOf(intent) = <<>> /\ intent.occasion = NullStr)
              => keywords = <<kwPopularGifts, kwBestSellers>>

\* Four explicit keywords and an occasion: three keywords are searched, with
\* three catalog requests
C24_Witness ==
    /\ InTurn
    /\ pc = "generate"
    /\ Len(KeywordsOf(intent)) = 5
    /\ keywords = <<kwMom, kwGetWell, kwBirthday>>
    /\ netCalls = 3

\* C25: the keyword list a turn hands to multiSearch holds no keyword
\* twice.
C25_KeywordsDeduplicated ==
    (InTurn /\ SearchInvoked) =>
        \A i, j \in 1..Len(keywords) :
            keywords[i] = keywords[j] => i = j

\* The steps of a turn in the order of the code
StageOf(p) ==
    CASE p = "extract"   -> 1
      [] p = "branch"    -> 2
      [] p = "searching" -> 3
      [] p = "generate"  -> 4
      [] OTHER           -> 5

Purposes(log) == [ i \in 1..Len(log) |-> log[i].purpose ]

NonePending == \A i \in 1..Len(subs) : subs[i].state # "pending"

\* C26: a turn of processMessage goes through its steps once each and in
\* order: the extraction call, the sub-searches, filter and rank, the
\* generation call, the reconciliation.  No step is taken twice or gone back
\* to, filter and rank start only when no sub-search is pending, the
\* generation call is made after them, and a turn that returns, after a
\* search or with a clarification, has made exactly 2 gateway calls.
C26_StepsOnceInOrder ==
    /\ [](mode = "complete" =>
            /\ Purposes(gatewayLog) \in
                  { <<>>, <<"extract">>, <<"extract", "generate">>,
                    <<"extract", "clarify">> }
            /\ pc = "done" => Len(gatewayLog) = 2
            /\ pc \in {"extract", "branch"} => ~SearchInvoked
            /\ pc \in {"generate", "done", "failed"} => NonePending)
    /\ [][mode = "complete" =>
            /\ \/ StageOf(pc') > StageOf(pc)
               \/ /\ pc = "searching"
                  /\ pc' = "searching"
                  /\ Len(doneOrder') = Len(doneOrder) + 1
            /\ pc' = "generate" => (pc = "searching" /\ NonePending)
            /\ Len(gatewayLog') > Len(gatewayLog) =>
                  /\ Len(gatewayLog') = Len(gatewayLog) + 1
                  /\ gatewayLog'[Len(gatewayLog')].purpose = "extract"
                        <=> pc = "extract"
                  /\ gatewayLog'[Len(gatewayLog')].purpose = "generate"
                        <=> pc = "generate"
            /\ (pc' = "done" /\ pc = "generate") =>
                  result'.products =
                      reorderProductsByMention(result'.message,
                                               displayProducts, topProducts)
       ]_vars

\* A search turn of processMessage that has returned: three sub-searches
\* answered by requests, then the two gateway calls and a reconciled list
C26_Witness ==
    /\ mode = "complete"
    /\ pc = "done"
    /\ netCalls = 3
    /\ Purposes(gatewayLog) = <<"extract", "generate">>
    /\ result.status = "returned"
    /\ result.products # displayProducts

\* C27: a chat request with a comparison list of 2 or more identifiers is
\* answered with a comparison message that exactly one gateway call, at
\* temperature 0.5, produced; it makes no extraction call and no catalog
\* search.  (Stated for requests whose gateway calls all succeed.)
C27_ComparisonRequestAnswered ==
    ( /\ mode = "chat"
      /\ pc = "done"
      /\ Cardinality(Range(productIds)) >= 2
      /\ apiKey
      /\ \A i \in 1..Len(gatewayLog) : gatewayLog[i].status = "ok" )
        => /\ result.code = 200
           /\ Len(gatewayLog) = 1
           /\ gatewayLog[1].purpose = "compare"
           /\ gatewayLog[1].temperature10 = 5
           /\ ~SearchInvoked

\* C28: compareProducts called with fewer than 2 identifiers returns the
\* message "Please select at least 2 products to compare." as its result,
\* throws nothing and makes no gateway call.
C28_FewerThanTwoValidated ==
    ( /\ mode = "compare"
      /\ pc # "compare"
      /\ Cardinality(Range(productIds)) < 2 )
        => /\ pc = "done"
           /\ result = ReturnedMessage(msgSelectTwo)
           /\ gatewayLog = <<>>

\* One identifier, of a product of a list of two
C28_Witness ==
    /\ mode = "compare"
    /\ pc = "done"
    /\ apiKey
    /\ productIds = <<10>>
    /\ allProducts = ArrayOf(<<p10, p20>>)
    /\ result.message = msgSelectTwo
    /\ gatewayLog = <<>>

\* C29: without a credential no gateway call of a turn sends a request:
\* the turn, of either variant, fails at its extraction call with a
\* configuration error, having made no inference request and no catalog
\* request.
C29_NoCredentialNoRequest ==
    (InTurn /\ ~apiKey) =>
        /\ \A i \in 1..Len(gatewayLog) :
              ~gatewayLog[i].sent /\ gatewayLog[i].status = "not_sent"
        /\ pc \in {"extract", "failed"}
        /\ pc = "failed" =>
              /\ Purposes(gatewayLog) = <<"extract">>
              /\ result = Threw("ConfigurationError")
        /\ ~SearchInvoked
        /\ netCalls = 0
        /\ cache = EmptyCache

\* A streaming turn without a credential that has failed at extraction
C29_Witness ==
    /\ mode = "stream"
    /\ ~apiKey
    /\ pc = "failed"
    /\ result = Threw("ConfigurationError")
    /\ Len(gatewayLog) = 1
    /\ ~gatewayLog[1].sent

\* The top of the ranked list in display form, as both variants of the turn
\* cut it
NominalTop(ranked, n) == MapSeq(formatProductForDisplay, Slice(ranked, n))

Streamings(log) == [ i \in 1..Len(log) |-> log[i].streaming ]

\* C30: processMessageStream takes the steps of processMessage: one
\* extraction call, then either one clarification call or the search, the
\* filter and rank and one generation call, with the same lists cut from the
\* same ranked list; only the second call is a streaming one.  After a
\* search it returns the top-8 display list that processMessage hands to
\* reconciliation, as it is: no generated text is in hand and nothing is
\* reordered.  After a clarification it returns no products.
C30_StreamSameStepsNoReconciliation ==
    InTurn =>
        /\ Purposes(gatewayLog) \in
              { <<>>, <<"extract">>, <<"extract", "generate">>,
                <<"extract", "clarify">> }
        /\ Len(gatewayLog) >= 1 => ~gatewayLog[1].streaming
        /\ Len(gatewayLog) = 2 => (gatewayLog[2].streaming <=> mode = "stream")
        /\ pc \in {"extract", "branch"} => ~SearchInvoked
        /\ (pc = "generate" \/ "generate" \in Range(Purposes(gatewayLog))) =>
              LET ranked == filterAndRank(allProducts, intent)
              IN  /\ displayProducts = NominalTop(ranked, 8)
                  /\ topProducts = NominalTop(ranked, 10)
        /\ (pc = "done" /\ "clarify" \in Range(Purposes(gatewayLog))) =>
              /\ result.products = <<>>
              /\ ~SearchInvoked
        /\ (pc = "done" /\ "generate" \in Range(Purposes(gatewayLog))) =>
              IF mode = "stream"
              THEN /\ result.products = displayProducts
                   /\ result.message = <<>>
                   /\ aiResponse = <<>>
              ELSE result.products =
                      reorderProductsByMention(aiResponse, displayProducts,
                                               topProducts)

\* A streaming turn that searched and returned a display list of several
\* products
C30_Witness ==
    /\ mode = "stream"
    /\ pc = "done"
    /\ Purposes(gatewayLog) = <<"extract", "generate">>
    /\ Streamings(gatewayLog) = <<FALSE, TRUE>>
    /\ Len(displayProducts) >= 2
    /\ result.products = displayProducts

\* C33: the search step and the filter and rank step leave the intent as
\* the extraction step produced it, its search_keywords included: no step
\* after the extraction changes the intent the turn returns.
C33_IntentUnmodified ==
    [][(InTurn /\ pc # "extract") => intent' = intent]_vars

\* The step is the return of a successful request for key that stores data
StoresFetched(key, data) ==
    \E i \in 1..Len(subs) :
        /\ subs[i].state = "pending"
        /\ subs[i].key = key
        /\ subs'[i].state = "resolved"
        /\ subs'[i].how = "ok"
        /\ subs'[i].data = data

\* C34: a stored search result stays as it was stored, the same products in
\* the same order, through every step of a turn (merge, filter, rank with
\* its sort, reconciliation), until the entry is overwritten by the result
\* of a new request for its key; no step of the turn removes it while it is
\* younger than the time to live.
C34_CachedResultsUntouched ==
    [][InTurn =>
          \A key \in DOMAIN cache :
              /\ key \in DOMAIN cache'
              /\ cache'[key] # cache[key]
                    => StoresFetched(key, cache'[key].data)
      ]_vars

\* A turn that has ranked and reconciled over a stored result whose order
\* is not the ranked order
C34_Witness ==
    /\ mode = "complete"
    /\ pc = "done"
    /\ kwBirthday \in DOMAIN cache
    /\ cache[kwBirthday].data \in CatalogResponses(kwBirthday)
    /\ cache[kwBirthday].data # SortProducts(cache[kwBirthday].data)
    /\ result.status = "returned"
    /\ Len(result.products) >= 2

\* C35: a search whose request fails, by a non-success status or in
\* transport, stores nothing: the step leaves the cache as it is, every
\* entry of the cache holds the answer of a successful request for its key,
\* and a call for a keyword whose key has no entry sends a request.
C35_FailedSearchStoresNothing ==
    /\ [](mode = "client" =>
            \A key \in DOMAIN cache :
                \E i \in 1..Len(subs) :
                    /\ subs[i].key = key
                    /\ subs[i].how = "ok"
                    /\ subs[i].data = cache[key].data)
    /\ [][mode = "client" =>
            /\ \A i \in 1..Len(subs) :
                  ( /\ subs[i].state = "pending"
                    /\ subs'[i].state = "resolved"
                    /\ subs'[i].how # "ok" )
                      => /\ cache' = cache
                         /\ subs'[i].data = <<>>
            /\ ( /\ Len(subs') = Len(subs) + 1
                 /\ ~Blank(subs'[Len(subs')].keyword)
                 /\ NormalForm(subs'[Len(subs')].keyword) \notin DOMAIN cache )
                  => /\ subs'[Len(subs')].state = "pending"
                     /\ netCalls' = netCalls + 1
       ]_vars

\* A search that failed, then a second call for the same keyword that has
\* sent its own request
C35_Witness ==
    /\ mode = "client"
    /\ Len(subs) = 2
    /\ subs[1].how = "transport_error"
    /\ subs[2].keyword = subs[1].keyword
    /\ subs[2].state = "pending"
    /\ cache = EmptyCache
    /\ netCalls = 2
    /\ doneOrder = <<1>>

\* a can be had from b by leaving elements out
RECURSIVE IsSubsequence(_, _)
IsSubsequence(a, b) ==
    IF a = <<>> THEN TRUE
    ELSE IF b = <<>> THEN FALSE
    ELSE IF Head(a) = Head(b) THEN IsSubsequence(Tail(a), Tail(b))
    ELSE IsSubsequence(a, Tail(b))

\* C36: the output of filterProducts is a subsequence of its input: every
\* product of it is a product of the input, as often at most, in the order
\* of the input; and the input list is as it was.
C36_OutputIsSubsequence ==
    /\ [](FilterDone => IsSubsequence(result.products, allProducts))
    /\ [][mode = "filter" => allProducts' = allProducts]_vars

\* A list with a product twice, of which the filters drop the one between
C36_Witness ==
    /\ FilterDone
    /\ allProducts = <<p10, p60, p10>>
    /\ filters.occasion = kwBirthday
    /\ result.products = <<p10, p10>>

\* No two positions of the list hold products of one id
DistinctIds(products) ==
    \A i, j \in 1..Len(products) :
        products[i].id = products[j].id => i = j

\* The two lists hold the same products, each as often
IsPermutation(a, b) ==
    /\ Len(a) = Len(b)
    /\ \A p \in Range(a) \cup Range(b) : Occurrences(a, p) = Occurrences(b, p)

\* C37: with a top-10 set of distinct ids the reconciled list holds no
\* product twice, and when every id the text mentions is the id of a product
\* of the nominal display list the reconciled list is a permutation of the
\* display list.
C37_ReconciledNoRepeatPermutation ==
    (mode = "reorder" /\ pc = "done" /\ DistinctIds(topProducts))
        => /\ DistinctIds(result.products)
           /\ (\A d \in Range(TagDigits(aiResponse)) :
                   HasId(displayProducts, d))
                 => IsPermutation(result.products, displayProducts)

\* The last display product mentioned twice and another once: the
\* reconciliation puts them first
C37_Witness ==
    /\ mode = "reorder"
    /\ pc = "done"
    /\ aiResponse = << Tag(<<8, 0>>), Tag(<<2, 0>>), Tag(<<8, 0>>) >>
    /\ Len(topProducts) = LLM_LIMIT
    /\ Ids(displayProducts) = <<10, 20, 30, 40, 50, 60, 70, 80>>
    /\ Ids(result.products) = <<80, 20, 10, 30, 40, 50, 60, 70>>

\* C32: the response to a failed chat request carries the generic failure
\* text and nothing else about the failure: no technical detail of the
\* error is sent.
C32_FailureResponseGenericOnly ==
    (mode = "chat" /\ pc = "done" /\ result.code = 500)
        => /\ result.error = msgWentWrong
           /\ result.details = NullStr

AssistantCount(transcript) ==
    Cardinality({ i \in 1..Len(transcript) :
                    transcript[i].role = "assistant" })

\* The assistant message a settled fetch calls for
AssistantFor(fetched) ==
    IF fetched.status = "ok"
    THEN AssistantMessage(fetched.message, ArrayOf(fetched.products))
    ELSE AssistantMessage(msgApology, NullValue)

SendEnds == isLoading /\ ~isLoading'

\* C31: every send of the chat panel comes to an end with the loading flag
\* false, and the step that ends it appends one assistant message to the
\* transcript, the message of the response on success and the fixed apology
\* on any failure; no other step adds an assistant message.  With the flag
\* false the guard of sendMessage lets the next send through.
C31_SendEndsWithOneAssistantMessage ==
    /\ [][mode = "panel" =>
             /\ SendEnds => messages' = Append(messages,
                                               AssistantFor(chatFetch))
             /\ ~SendEnds =>
                   AssistantCount(messages') <= AssistantCount(messages)
             /\ (~isLoading /\ isLoading') =>
                   /\ Len(messages') = Len(messages) + 1
                   /\ messages'[Len(messages')].role = "user"
       ]_vars
    /\ (mode = "panel" /\ isLoading) ~> ~isLoading

\* A send that failed and was answered with the apology, and the next send
\* under way
C31_Witness ==
    /\ mode = "panel"
    /\ isLoading
    /\ sendCount = 2
    /\ messages = << UserMessage(msgHi),
                     AssistantMessage(msgApology, NullValue),
                     UserMessage(msgHi) >>

\* C38: once the transcript and the product grid are empty, as Clear leaves
\* them, they stay empty in every step that is not a new send, a request in
\* flight or not.
C38_EmptyAfterClearUntilSend ==
    [][ ( /\ mode = "panel"
          /\ messages = <<>>
          /\ pageProducts = <<>>
          /\ sendCount' = sendCount )
          => (messages' = <<>> /\ pageProducts' = <<>>) ]_vars

\* C39: whenever the comparison modal of the product grid is open, the
\* comparison result holds at least 2 products, each a product of the list
\* the grid displays.
C39_OpenModalHoldsDisplayedProducts ==
    (mode = "grid" /\ isComparing)
        => /\ compareResult.type = "array"
           /\ Len(compareResult.items) >= 2
           /\ \A i \in 1..Len(compareResult.items) :
                 compareResult.items[i] \in Range(pageProducts)

====
